---- MODULE Spec2Model ----
(***************************************************************************)
(* The caching and freshness layer of the agileai backend: three cache     *)
(* tables (repository_data, repository_issues, visualization_cache), the   *)
(* durable issues table with its embeddings, the store reads and upserts   *)
(* of database.py, and the request handlers of main.py that sit on top of  *)
(* them.  Time is counted in whole hours.                                  *)
(***************************************************************************)
EXTENDS Integers, Sequences, FiniteSets, TLC

\* ---------------------------------------------------------------- bounds
MaxTime == 169
MaxRequests == 2

\* ------------------------------------------------------ program constants
DefaultMaxAgeHours == 24
NomicMaxAgeHours == 168
ProcessingGraceHours == 1

Repos == {"A"}
Fields == {"body"}

\* The repositories whose rows the store holds, and the slots of the two
\* requests that run concurrently.
StoreRepos == {"A", "B"}
Tasks == {1, 2}

\* The instants at which the clock is observed: the start, the age at which
\* each window closes, and everything past the longest window.
Instants ==
  {t \in 0..MaxTime :
      \/ t \in {0, ProcessingGraceHours, DefaultMaxAgeHours}
      \/ t >= NomicMaxAgeHours}

\* ------------------------------------------------------------- payloads
\* Every JSON value the handlers move around is one record:
\*   kind   what the value is ("None" is Python's None, "empty" is {} or "")
\*   v      the number of the request whose producer made it
\*   status the nomic sub-status, "" where there is none
\*   items  the issue list of an issue batch
\*   enc    how many times the value has been JSON-encoded: 0 is a Python
\*          value, 1 the JSON text of it (a str), 2 the JSON text of that str
\*   py     TRUE when the Python value holds parts that are not JSON types
\*          (numpy scalars and arrays, pandas timestamps, tuples)
Data(kind, v, status, items) ==
  [kind |-> kind, v |-> v, status |-> status, items |-> items,
   enc |-> 0, py |-> FALSE]

\* A value as a producer builds it from numpy and pandas objects.
PyData(kind, v, status, items) ==
  [Data(kind, v, status, items) EXCEPT !.py = TRUE]

None == Data("None", 0, "", <<>>)
EmptyValue == Data("empty", 0, "", <<>>)

\* Python truthiness of a payload: None, {} , "" and [] are falsy; a JSON
\* text is a non-empty str, whatever it encodes.
Truthy(d) ==
  \/ d.enc > 0
  \/ /\ d.kind \notin {"None", "empty"}
     /\ (d.kind = "issues" => d.items # <<>>)

\* json.dumps(data, cls=NumpyJSONEncoder): the encoder turns the numpy and
\* pandas parts into JSON numbers, lists and strings; a str is encoded as a
\* JSON string literal.
json_dumps(d) == [d EXCEPT !.enc = @ + 1, !.py = FALSE]

\* json.loads(text): one level of encoding is taken off.
json_loads(text) == [text EXCEPT !.enc = @ - 1]

\* One element of an issue batch.  tag "dict" is an object; tag "str" is a
\* JSON string that starts with '{' and decodes to the object with the same
\* id and number; tag "badstr" starts with '{' but does not decode; tag
\* "text" is any other string.  The title is "bug", the body "text" and
\* the creation date "t" unless said otherwise; "None" is a JSON null, ""
\* the empty string and " " a string of white space.
Issue(tag, id, number) ==
  [tag |-> tag, id |-> id, number |-> number, title |-> "bug",
   body |-> "text", created_at |-> "t"]

Titled(issue, title) == [issue EXCEPT !.title = title]

\* The record with other text fields.
WithText(issue, title, body) == [issue EXCEPT !.title = title, !.body = body]

\* _parse_gh_date gives None for a date it cannot parse, and the record
\* goes out with "created_at": null.
WithoutDate(issue) == [issue EXCEPT !.created_at = "None"]

\* What GitHub lists for each repository: ids are unique across
\* repositories, numbers only within one.
GoodBatch == <<Issue("dict", "101", "1"), Titled(Issue("dict", "102", "2"), "issues")>>

Upstream(repo) ==
  IF repo = "A" THEN GoodBatch
  ELSE <<Issue("dict", "201", "1"), Titled(Issue("dict", "202", "2"), "issues"),
         Issue("dict", "203", "3")>>

\* The same list when the last record comes without "id".
WithoutLastId(batch) == [batch EXCEPT ![Len(batch)].id = "None"]

\* ------------------------------------------------------------ variables
VARIABLES
  now,                  \* wall clock, hours
  repository_data,      \* rows [repo_name, data, last_updated]
  repository_issues,    \* rows [repo_name, data, last_updated]
  visualization_cache,  \* rows [repo_name, visualization_type, data, last_updated]
  issues,               \* rows [id, repo_name, issue_number, title]
  vec_issues,           \* rows [id, embedding] of the embedded issues
  nreq,                 \* number of requests served so far
  last,                 \* the last request and its response
  prev,                 \* the store as the last request found it
  tasks,                \* the handlers in flight, one per request slot
  temp_tables,          \* the temp tables [name, rows] of open connections
  connections,          \* the connections the last operation left open
  uncommitted           \* the tables the last operation wrote after its
                        \* last volume.commit()

vars == <<now, repository_data, repository_issues, visualization_cache,
          issues, vec_issues, nreq, last, prev, tasks, temp_tables,
          connections, uncommitted>>

Store(rd, ri, vc, iss, vec) ==
  [repository_data |-> rd, repository_issues |-> ri, visualization_cache |-> vc,
   issues |-> iss, vec_issues |-> vec]

CurStore ==
  Store(repository_data, repository_issues, visualization_cache, issues, vec_issues)

StoreTables ==
  {"repository_data", "repository_issues", "visualization_cache", "issues",
   "vec_issues"}

\* The tables in which store T differs from store S.
TablesWritten(S, T) == {name \in StoreTables : T[name] # S[name]}

VizType(prefix, field) == <<prefix, field>>
InsightsType == <<"insights", "">>
NoType == <<"", "">>

\* ------------------------------------------------ database.py: the reads
RowsOf(table, repo) == {r \in table : r.repo_name = repo}

VizRowsOf(table, repo, vtype) ==
  {r \in table : r.repo_name = repo /\ r.visualization_type = vtype}

\* cursor.fetchone() of a SELECT: one of the matching rows.
FetchOne(rows) == CHOOSE r \in rows : TRUE

get_repository_info_stale_at_boundary(S, t, repo, max_age_hours) ==
  LET rows == RowsOf(S.repository_data, repo) IN
  IF rows = {} THEN None
  ELSE LET row == FetchOne(rows) IN
       IF t - row.last_updated >= max_age_hours THEN None
       ELSE json_loads(row.data)

get_repository_info(S, t, repo, max_age_hours) ==
  LET rows == RowsOf(S.repository_data, repo) IN
  IF rows = {} THEN None
  ELSE LET row == FetchOne(rows) IN
       IF t - row.last_updated > max_age_hours THEN None
       ELSE json_loads(row.data)

\* json.loads of one string element of a legacy batch.
DecodeItem(item) == [item EXCEPT !.tag = "dict"]

RECURSIVE NormalizeCached(_)
NormalizeCached(items) ==
  IF items = <<>> THEN <<>>
  ELSE LET item == Head(items)
           rest == NormalizeCached(Tail(items))
       IN  IF item.tag = "dict" THEN <<item>> \o rest
           ELSE IF item.tag = "str" THEN <<DecodeItem(item)>> \o rest
           ELSE rest

get_repository_issues(S, t, repo, max_age_hours) ==
  LET rows == RowsOf(S.repository_issues, repo) IN
  IF rows = {} THEN None
  ELSE LET row == FetchOne(rows)
           issues_data == json_loads(row.data)
       IN
       IF t - row.last_updated > max_age_hours THEN None
       ELSE IF /\ Len(issues_data.items) > 0
               /\ Head(issues_data.items).tag \in {"str", "badstr"}
            THEN [issues_data EXCEPT !.items = NormalizeCached(issues_data.items)]
            ELSE issues_data

get_visualization_data_default_window(S, t, repo, vtype, max_age_hours) ==
  LET rows == VizRowsOf(S.visualization_cache, repo, vtype) IN
  IF rows = {} THEN None
  ELSE LET row == FetchOne(rows) IN
       IF t - row.last_updated > DefaultMaxAgeHours THEN None
       ELSE json_loads(row.data)

get_visualization_data(S, t, repo, vtype, max_age_hours) ==
  LET rows == VizRowsOf(S.visualization_cache, repo, vtype) IN
  IF rows = {} THEN None
  ELSE LET row == FetchOne(rows) IN
       IF t - row.last_updated > max_age_hours THEN None
       ELSE json_loads(row.data)

\* ---------------------------------------------- database.py: the upserts
save_repository_info(S, t, repo, data) ==
  [S EXCEPT !.repository_data =
     (@ \ RowsOf(@, repo)) \cup
       {[repo_name |-> repo, data |-> json_dumps(data), last_updated |-> t]}]

save_repository_issues_keeps_timestamp(S, t, repo, data) ==
  [S EXCEPT !.repository_issues =
     IF RowsOf(@, repo) = {}
     THEN @ \cup {[repo_name |-> repo, data |-> json_dumps(data), last_updated |-> t]}
     ELSE (@ \ RowsOf(@, repo)) \cup
            {[r EXCEPT !.data = json_dumps(data)] : r \in RowsOf(@, repo)}]

save_repository_issues(S, t, repo, data) ==
  [S EXCEPT !.repository_issues =
     (@ \ RowsOf(@, repo)) \cup
       {[repo_name |-> repo, data |-> json_dumps(data), last_updated |-> t]}]

save_visualization_data_plain_insert(S, t, repo, vtype, data) ==
  [S EXCEPT !.visualization_cache =
     @ \cup
       {[repo_name |-> repo, visualization_type |-> vtype,
         data |-> json_dumps(data), last_updated |-> t]}]

\* INSERT ... ON CONFLICT(key) DO UPDATE: the row of the key, if there is
\* one, gives way to the new row.
save_visualization_data(S, t, repo, vtype, data) ==
  [S EXCEPT !.visualization_cache =
     (@ \ VizRowsOf(@, repo, vtype)) \cup
       {[repo_name |-> repo, visualization_type |-> vtype,
         data |-> json_dumps(data), last_updated |-> t]}]

\* ------------------------------------------------------------ responses
\* What a handler hands back: the HTTP status, the "source" field of the
\* body ("none" where the body has none), whether the handler returned at
\* its cache check, the body's data, the producers that ran with their outcomes, and
\* the value handed to the derived-computation producer (None if none ran).
Resp(status, source, hit, data, calls, fed) ==
  [status |-> status, source |-> source, hit |-> hit, data |-> data,
   calls |-> calls, fed |-> fed]

Call(p, out) == [p |-> p, out |-> out]

Result(S, resp) == [S |-> S, resp |-> resp]

\* A producer either raises or returns a value.
Returned(value) == [raised |-> FALSE, value |-> value]
Raised == [raised |-> TRUE, value |-> None]

\* ------------------------------------------------- github_api.py producers
InfoOutcomes == {"ok", "http_error", "raise"}
IssuesOutcomes == {"ok", "no_id", "http_error", "raise"}

\* HTTPError and KeyError are swallowed into {}; anything else propagates.
get_info(o, n) ==
  IF o = "raise" THEN Raised
  ELSE IF o = "http_error" THEN Returned(EmptyValue)
  ELSE Returned(Data("info", n, "", <<>>))

\* HTTPError is swallowed into []; anything else propagates.  An upstream
\* record without "id" comes back with id None.
get_issues(repo, o, n) ==
  IF o = "raise" THEN Raised
  ELSE IF o = "http_error" THEN Returned(Data("issues", n, "", <<>>))
  ELSE IF o = "no_id" THEN Returned(Data("issues", n, "", WithoutLastId(Upstream(repo))))
  ELSE Returned(Data("issues", n, "", Upstream(repo)))

\* ---------------------------------------------- visualization.py producers
WordcloudOutcomes == {"ok", "empty"}
TopicsOutcomes == {"ok", "empty", "raise"}
InsightsOutcomes == {"ok", "empty"}
NomicOutcomes == {"error_key", "processing", "complete", "timeout", "error"}

\* Catches its own exceptions and returns {}.
prepare_wordcloud_data(o, n) ==
  IF o = "ok" THEN Returned(Data("wordcloud", n, "", <<>>))
  ELSE Returned(EmptyValue)

\* The text cleaning is outside any try: it can raise.
prepare_topic_modeling_data(o, n) ==
  IF o = "raise" THEN Raised
  ELSE IF o = "ok" THEN Returned(Data("topics", n, "", <<>>))
  ELSE Returned(EmptyValue)

\* issues_df.empty is read before the try: a dict argument (the response
\* envelope of get_issues_data) has no such attribute and raises.
prepare_repository_insights(input, o, n) ==
  IF input.kind = "envelope" THEN Raised
  ELSE IF o = "ok" THEN Returned(Data("insights", n, "", <<>>))
  ELSE Returned(EmptyValue)

\* Never raises: a failure is a dict with an "error" key, a poll that ran
\* out is status "timeout", a result that does not serialise is status
\* "error".
prepare_nomic_atlas_topics(o, n) ==
  IF o = "error_key" THEN Returned(Data("nomic_error_key", n, "", <<>>))
  ELSE Returned(Data("nomic", n, o, <<>>))

\* ------------------------------------------------------- main.py handlers
\* "except Exception" around a handler body also catches the HTTPException
\* the body raised itself, and re-raises it with status 500.
ExceptException(status) == 500

CacheIsComplete_number_only(items) ==
  \A i \in 1..Len(items) :
     /\ items[i].tag = "dict"
     /\ items[i].number # "None"

\* Every element is an object with an id and a number.
CacheIsComplete(items) ==
  \A i \in 1..Len(items) :
     /\ items[i].tag = "dict"
     /\ items[i].id # "None"
     /\ items[i].number # "None"

get_issues_data(S, t, n, repo, force_refresh, o_issues) ==
  LET cached_issues ==
        IF force_refresh THEN None
        ELSE get_repository_issues(S, t, repo, DefaultMaxAgeHours)
  IN
  IF ~force_refresh /\ Truthy(cached_issues) /\ CacheIsComplete(cached_issues.items)
  THEN Result(S, Resp(200, "cache", TRUE, cached_issues, {}, None))
  ELSE LET f == get_issues(repo, o_issues, n)
           calls == {Call("get_issues", o_issues)}
       IN  IF f.raised
           THEN Result(S, Resp(ExceptException(500), "none", FALSE, None, calls, None))
           ELSE Result(save_repository_issues(S, t, repo, f.value),
                       Resp(200, "api", FALSE, f.value, calls, None))

get_repository_info_api(S, t, n, repo, force_refresh, o_info) ==
  LET cached_info ==
        IF force_refresh THEN None
        ELSE get_repository_info(S, t, repo, DefaultMaxAgeHours)
  IN
  IF ~force_refresh /\ Truthy(cached_info)
  THEN Result(S, Resp(200, "cache", TRUE, cached_info, {}, None))
  ELSE LET f == get_info(o_info, n)
           calls == {Call("get_info", o_info)}
       IN  IF f.raised
           THEN Result(S, Resp(ExceptException(500), "none", FALSE, None, calls, None))
           ELSE IF ~Truthy(f.value)
           THEN Result(S, Resp(ExceptException(404), "none", FALSE, None, calls, None))
           ELSE Result(save_repository_info(S, t, repo, f.value),
                       Resp(200, "api", FALSE, f.value, calls, None))

\* GET /api/insights: the issues are resolved first, and what is handed to
\* the producer is the whole response of get_issues_data.
Envelope(resp) == Data("envelope", resp.data.v, "", resp.data.items)

get_repository_insights_api(S, t, n, repo, force_refresh, o_issues, o_insights) ==
  LET r == get_issues_data(S, t, n, repo, force_refresh, o_issues)
      issues_data == Envelope(r.resp)
      cached_insights ==
        IF force_refresh THEN None
        ELSE get_visualization_data(r.S, t, repo, InsightsType, DefaultMaxAgeHours)
  IN
  IF r.resp.status # 200 THEN r
  ELSE IF ~force_refresh /\ Truthy(cached_insights)
  THEN Result(r.S, Resp(200, "cache", TRUE, cached_insights, r.resp.calls, None))
  ELSE LET p == prepare_repository_insights(issues_data, o_insights, n)
           calls == r.resp.calls \cup
                      {Call("prepare_repository_insights",
                            IF p.raised THEN "raise" ELSE o_insights)}
       IN  IF p.raised
           THEN Result(r.S, Resp(ExceptException(500), "none", FALSE, None, calls, issues_data))
           ELSE Result(save_visualization_data(r.S, t, repo, InsightsType, p.value),
                       Resp(200, "generated", FALSE, p.value, calls, issues_data))

\* The block every POST /visualize handler repeats: take the cached issue
\* batch as it is, or fetch and cache one.  status is 200, or the status of
\* the exception raised inside the handler's try.
Resolved(S, status, value, calls) ==
  [S |-> S, status |-> status, value |-> value, calls |-> calls]

ResolveIssues(S, t, n, repo, o_issues) ==
  LET issues_data == get_repository_issues(S, t, repo, DefaultMaxAgeHours) IN
  IF Truthy(issues_data) THEN Resolved(S, 200, issues_data, {})
  ELSE LET f == get_issues(repo, o_issues, n)
           calls == {Call("get_issues", o_issues)}
       IN  IF f.raised THEN Resolved(S, 500, None, calls)
           ELSE IF ~Truthy(f.value) THEN Resolved(S, 404, None, calls)
           ELSE Resolved(save_repository_issues(S, t, repo, f.value), 200, f.value, calls)

\* get_wordcloud, get_topics and get_insights are the same code around
\* three producers; req.force_refresh is never read.
Visualize(S, t, repo, vtype, r, pname, p, o) ==
  LET cached_data == get_visualization_data(S, t, repo, vtype, DefaultMaxAgeHours) IN
  IF Truthy(cached_data)
  THEN Result(S, Resp(200, "cache", TRUE, cached_data, {}, None))
  ELSE IF r.status # 200
  THEN Result(r.S, Resp(ExceptException(r.status), "none", FALSE, None, r.calls, None))
  ELSE LET calls == r.calls \cup {Call(pname, o)} IN
       IF p.raised
       THEN Result(r.S, Resp(ExceptException(500), "none", FALSE, None, calls, r.value))
       ELSE IF ~Truthy(p.value)
       THEN Result(r.S, Resp(ExceptException(404), "none", FALSE, None, calls, r.value))
       ELSE Result(save_visualization_data(r.S, t, repo, vtype, p.value),
                   Resp(200, "generated", FALSE, p.value, calls, r.value))

get_wordcloud(S, t, n, repo, field, force_refresh, o_issues, o) ==
  Visualize(S, t, repo, VizType("wordcloud", field),
            ResolveIssues(S, t, n, repo, o_issues),
            "prepare_wordcloud_data", prepare_wordcloud_data(o, n), o)

get_topics(S, t, n, repo, field, force_refresh, o_issues, o) ==
  Visualize(S, t, repo, VizType("topics", field),
            ResolveIssues(S, t, n, repo, o_issues),
            "prepare_topic_modeling_data", prepare_topic_modeling_data(o, n), o)

get_insights(S, t, n, repo, force_refresh, o_issues, o) ==
  LET r == ResolveIssues(S, t, n, repo, o_issues) IN
  Visualize(S, t, repo, InsightsType, r,
            "prepare_repository_insights",
            prepare_repository_insights(r.value, o, n), o)

\* ---------------------------------------------------------------- ldavis
\* generate_ldavis_html: "" when there is too little text; the page; or,
\* when anything inside raises, an error page (a non-empty string).  On the
\* way it calls save_topic_data, which stores the topics, or an error record
\* when extracting them raises.
\*   empty        too little text, nothing stored
\*   ok           topics stored, page returned
\*   ok_topic_err error record stored, page returned
\*   error_page   the model raised before save_topic_data: error page returned
LdavisOutcomes == {"empty", "ok", "ok_topic_err", "error_page"}

save_topic_data(S, t, n, repo, field, o) ==
  IF o = "ok"
  THEN save_visualization_data(S, t, repo, VizType("topics_from_ldavis", field),
                               json_dumps(Data("topics_from_ldavis", n, "", <<>>)))
  ELSE IF o = "ok_topic_err"
  THEN save_visualization_data(S, t, repo, VizType("topics_from_ldavis", field),
                               json_dumps(Data("topics_error", n, "", <<>>)))
  ELSE S

generate_ldavis_html(S, t, n, repo, field, o) ==
  IF o = "empty" THEN [S |-> S, value |-> EmptyValue]
  ELSE IF o = "error_page" THEN [S |-> S, value |-> Data("ldavis_error_page", n, "", <<>>)]
  ELSE [S |-> save_topic_data(S, t, n, repo, field, o),
        value |-> Data("ldavis", n, "", <<>>)]

get_ldavis(S, t, n, repo, field, force_refresh, o_issues, o) ==
  LET vtype == VizType("ldavis", field)
      cached_data == get_visualization_data(S, t, repo, vtype, DefaultMaxAgeHours)
      r == ResolveIssues(S, t, n, repo, o_issues)
      g == generate_ldavis_html(r.S, t, n, repo, field, o)
      calls == r.calls \cup {Call("generate_ldavis_html", o)}
      error_html == Data("error_html", n, "", <<>>)
  IN
  IF Truthy(cached_data) /\ ~force_refresh
  THEN Result(S, Resp(200, "none", TRUE, cached_data, {}, None))
  ELSE IF r.status # 200
  THEN Result(r.S, Resp(ExceptException(r.status), "none", FALSE, error_html, r.calls, None))
  ELSE IF ~Truthy(g.value)
  THEN Result(g.S, Resp(ExceptException(404), "none", FALSE, error_html, calls, r.value))
  ELSE Result(save_visualization_data(g.S, t, repo, vtype, g.value),
              Resp(200, "none", FALSE, g.value, calls, r.value))

\* The body {"topics": [], "error": ...} returned with status 200.  A cached
\* value that is not a str makes json.loads raise TypeError, which the
\* outer except turns into the same body.
EmptyTopics == Data("empty_topics_error", 0, "", <<>>)

get_topics_from_ldavis(S, t, n, repo, field, force_refresh, o_issues, o) ==
  LET vtype == VizType("topics_from_ldavis", field)
      cached_data == get_visualization_data(S, t, repo, vtype, DefaultMaxAgeHours)
      g == get_ldavis(S, t, n, repo, field, TRUE, o_issues, o)
      regenerated == get_visualization_data(g.S, t, repo, vtype, DefaultMaxAgeHours)
  IN
  IF Truthy(cached_data) /\ ~force_refresh
  THEN IF cached_data.enc = 0
       THEN Result(S, Resp(200, "none", FALSE, EmptyTopics, {}, None))
       ELSE Result(S, Resp(200, "none", TRUE, json_loads(cached_data), {}, None))
  ELSE IF ~Truthy(regenerated)
  THEN Result(g.S, Resp(200, "none", FALSE, EmptyTopics, g.resp.calls, g.resp.fed))
  ELSE IF regenerated.enc = 0
  THEN Result(g.S, Resp(200, "none", FALSE, EmptyTopics, g.resp.calls, g.resp.fed))
  ELSE Result(g.S, Resp(200, "none", FALSE, json_loads(regenerated), g.resp.calls, g.resp.fed))

\* ----------------------------------------------------------------- nomic
\* A cached "processing" artifact is retried once its row is older than
\* the grace period.
ProcessingIsStale_at_grace(S, t, repo, vtype, cached_data) ==
  LET rows == VizRowsOf(S.visualization_cache, repo, vtype) IN
  /\ cached_data.status = "processing"
  /\ rows # {}
  /\ t - FetchOne(rows).last_updated >= ProcessingGraceHours

ProcessingIsStale_any_status(S, t, repo, vtype, cached_data) ==
  LET rows == VizRowsOf(S.visualization_cache, repo, vtype) IN
  /\ rows # {}
  /\ t - FetchOne(rows).last_updated > ProcessingGraceHours

ProcessingIsStale(S, t, repo, vtype, cached_data) ==
  LET rows == VizRowsOf(S.visualization_cache, repo, vtype) IN
  /\ cached_data.status = "processing"
  /\ rows # {}
  /\ t - FetchOne(rows).last_updated > ProcessingGraceHours

NomicTopics_saves_error(S, t, n, repo, field, force_refresh, o_issues, o) ==
  LET vtype == VizType("nomic_atlas_topics", field)
      cached_data ==
        IF force_refresh THEN None
        ELSE get_visualization_data(S, t, repo, vtype, NomicMaxAgeHours)
      stale_processing ==
        /\ Truthy(cached_data)
        /\ ProcessingIsStale(S, t, repo, vtype, cached_data)
      force == force_refresh \/ stale_processing
      r == get_issues_data(S, t, n, repo, force, o_issues)
      p == prepare_nomic_atlas_topics(o, n)
      calls == r.resp.calls \cup {Call("prepare_nomic_atlas_topics", o)}
      saved == save_visualization_data(r.S, t, repo, vtype, p.value)
  IN
  IF ~force_refresh /\ Truthy(cached_data) /\ ~stale_processing
  THEN Result(S, Resp(200, "none", TRUE, cached_data, {}, None))
  ELSE IF r.resp.status # 200 THEN r
  ELSE IF ~Truthy(r.resp.data)
  THEN Result(r.S, Resp(404, "none", FALSE, None, r.resp.calls, None))
  ELSE IF p.value.kind = "nomic_error_key"
  THEN Result(saved, Resp(500, "none", FALSE, None, calls, r.resp.data))
  ELSE Result(saved, Resp(200, "none", FALSE, p.value, calls, r.resp.data))

\* get_nomic_atlas_topics and get_nomic_atlas_topics_get have the same body.
NomicTopics(S, t, n, repo, field, force_refresh, o_issues, o) ==
  LET vtype == VizType("nomic_atlas_topics", field)
      cached_data ==
        IF force_refresh THEN None
        ELSE get_visualization_data(S, t, repo, vtype, NomicMaxAgeHours)
      stale_processing ==
        /\ Truthy(cached_data)
        /\ ProcessingIsStale(S, t, repo, vtype, cached_data)
      force == force_refresh \/ stale_processing
      r == get_issues_data(S, t, n, repo, force, o_issues)
      p == prepare_nomic_atlas_topics(o, n)
      calls == r.resp.calls \cup {Call("prepare_nomic_atlas_topics", o)}
  IN
  IF ~force_refresh /\ Truthy(cached_data) /\ ~stale_processing
  THEN Result(S, Resp(200, "none", TRUE, cached_data, {}, None))
  ELSE IF r.resp.status # 200 THEN r
  ELSE IF ~Truthy(r.resp.data)
  THEN Result(r.S, Resp(404, "none", FALSE, None, r.resp.calls, None))
  ELSE IF p.value.kind = "nomic_error_key"
  THEN Result(r.S, Resp(500, "none", FALSE, None, calls, r.resp.data))
  ELSE Result(save_visualization_data(r.S, t, repo, vtype, p.value),
              Resp(200, "none", FALSE, p.value, calls, r.resp.data))

get_nomic_atlas_topics(S, t, n, repo, field, force_refresh, o_issues, o) ==
  NomicTopics(S, t, n, repo, field, force_refresh, o_issues, o)

get_nomic_atlas_topics_get(S, t, n, repo, field, force_refresh, o_issues, o) ==
  NomicTopics(S, t, n, repo, field, force_refresh, o_issues, o)

\* ------------------------------------------- database.py: durable issues
\* The outcome of one call of the embedding service.
EmbedOutcomes == {"ok", "fail"}

\* The ids GitHub hands out, and an embedding service that answers every
\* issue the same way.
IssueIds == {"101", "102", "103", "104", "201", "202", "203"}

EmbedAll(o) == [id \in IssueIds |-> o]

\* str.strip() and the truth value of a str or None.
Strip(text) == IF text = " " THEN "" ELSE text

StrTruthy(text) == text \notin {"", "None"}

HasContent_always(title, body) == TRUE

\* content = f"{title}\n\n{body}" if body else title, and the test
\* "content and content.strip()".
HasContent(title, body) ==
  IF StrTruthy(body)
  THEN title = "None" \/ Strip(title) # "" \/ Strip(body) # ""
  ELSE StrTruthy(title) /\ Strip(title) # ""

\* The row the INSERT builds from an element of the batch.
IssueRow(issue, repo) ==
  [id |-> issue.id, repo_name |-> repo, issue_number |-> issue.number,
   title |-> issue.title, body |-> issue.body, created_at |-> issue.created_at]

\* The constraints of the issues table that the INSERT can break: id is
\* the primary key, (repo_name, issue_number) is unique, title and
\* created_at are NOT NULL.
InsertRaises(row, iss) ==
  \/ \E r \in iss : r.id = row.id
  \/ \E r \in iss : r.repo_name = row.repo_name /\ r.issue_number = row.issue_number
  \/ row.title = "None"
  \/ row.created_at = "None"

\* The vector the embedding service derives from a text: equal texts give
\* equal vectors.
Embedding(title, body) == <<title, body>>

EmbedIssue_unguarded(issue, vec, embed) ==
  IF embed[issue.id] = "ok" /\ ~(\E e \in vec : e.id = issue.id)
  THEN [vec_issues |->
          vec \cup {[id |-> issue.id,
                     embedding |-> Embedding(issue.title, issue.body)]},
        raised |-> FALSE]
  ELSE [vec_issues |-> vec, raised |-> TRUE]

\* The embedding call and the INSERT of the vector (id is the primary key
\* of vec_issues), inside try/except: a failure of either is logged and
\* nothing is stored for the issue.
EmbedIssue(issue, vec, embed) ==
  IF embed[issue.id] = "ok" /\ ~(\E e \in vec : e.id = issue.id)
  THEN [vec_issues |->
          vec \cup {[id |-> issue.id,
                     embedding |-> Embedding(issue.title, issue.body)]},
        raised |-> FALSE]
  ELSE [vec_issues |-> vec, raised |-> FALSE]

IndexItem_upsert(issue, repo, iss, vec, embed) ==
  LET row == IssueRow(issue, repo)
      kept == {r \in iss : ~(r.repo_name = repo /\ r.issue_number = issue.number)}
      e == IF HasContent(issue.title, issue.body)
           THEN EmbedIssue(issue, vec, embed)
           ELSE [vec_issues |-> vec, raised |-> FALSE]
  IN
  IF issue.id = "None" \/ issue.number = "None"
  THEN [issues |-> iss, vec_issues |-> vec, raised |-> FALSE]
  ELSE IF InsertRaises(row, kept)
  THEN [issues |-> iss, vec_issues |-> vec, raised |-> TRUE]
  ELSE [issues |-> kept \cup {row}, vec_issues |-> e.vec_issues,
        raised |-> e.raised]

IndexItem_repairs(issue, repo, iss, vec, embed) ==
  LET row == IssueRow(issue, repo)
      e == IF HasContent(issue.title, issue.body)
           THEN EmbedIssue(issue, vec, embed)
           ELSE [vec_issues |-> vec, raised |-> FALSE]
  IN
  IF issue.id = "None" \/ issue.number = "None"
  THEN [issues |-> iss, vec_issues |-> vec, raised |-> FALSE]
  ELSE IF \E r \in iss : r.repo_name = repo /\ r.issue_number = issue.number
  THEN IF \E v \in vec : v.id = issue.id
       THEN [issues |-> iss, vec_issues |-> vec, raised |-> FALSE]
       ELSE [issues |-> iss, vec_issues |-> e.vec_issues, raised |-> e.raised]
  ELSE IF InsertRaises(row, iss)
  THEN [issues |-> iss, vec_issues |-> vec, raised |-> TRUE]
  ELSE [issues |-> iss \cup {row}, vec_issues |-> e.vec_issues,
        raised |-> e.raised]

\* One turn of the loop of save_issues_with_embeddings: an element without
\* id or number is skipped; an element whose (repo_name, issue_number) has
\* a row is left alone; otherwise the row is inserted, which raises out of
\* the loop when a constraint is broken, and the issue is embedded when it
\* has text.
IndexItem(issue, repo, iss, vec, embed) ==
  LET row == IssueRow(issue, repo)
      e == IF HasContent(issue.title, issue.body)
           THEN EmbedIssue(issue, vec, embed)
           ELSE [vec_issues |-> vec, raised |-> FALSE]
  IN
  IF issue.id = "None" \/ issue.number = "None"
  THEN [issues |-> iss, vec_issues |-> vec, raised |-> FALSE]
  ELSE IF \E r \in iss : r.repo_name = repo /\ r.issue_number = issue.number
  THEN [issues |-> iss, vec_issues |-> vec, raised |-> FALSE]
  ELSE IF InsertRaises(row, iss)
  THEN [issues |-> iss, vec_issues |-> vec, raised |-> TRUE]
  ELSE [issues |-> iss \cup {row}, vec_issues |-> e.vec_issues,
        raised |-> e.raised]

\* The loop over the normalised items, in one transaction.
RECURSIVE IndexLoop(_, _, _, _, _)
IndexLoop(items, repo, iss, vec, embed) ==
  IF items = <<>> THEN [issues |-> iss, vec_issues |-> vec, raised |-> FALSE]
  ELSE LET r == IndexItem(Head(items), repo, iss, vec, embed) IN
       IF r.raised THEN r
       ELSE IndexLoop(Tail(items), repo, r.issues, r.vec_issues, embed)

\* A str argument is decoded first; the commit comes after the loop, so a
\* call that raises leaves both tables as they were.
save_issues_with_embeddings(S, repo, issues_data, embed) ==
  LET list == IF issues_data.enc > 0 THEN json_loads(issues_data) ELSE issues_data
      r == IndexLoop(NormalizeCached(list.items), repo, S.issues, S.vec_issues, embed)
  IN
  IF list.kind # "issues" THEN [S |-> S, raised |-> FALSE]
  ELSE IF r.raised THEN [S |-> S, raised |-> TRUE]
  ELSE [S |-> [S EXCEPT !.issues = r.issues, !.vec_issues = r.vec_issues],
        raised |-> FALSE]

\* The texts a search is made with, and the order in which the issues lie
\* from each of them, nearest first.
SearchQueries == {"bug", "crash"}

Ranking(query) ==
  IF query = "bug"
  THEN <<"201", "101", "202", "102", "203", "103", "104">>
  ELSE <<"104", "203", "103", "202", "102", "201", "101">>

\* The distance of the embedding of an issue from the embedding of a query.
Distance(query, id) ==
  CHOOSE d \in 1..Len(Ranking(query)) : Ranking(query)[d] = id

\* "embedding MATCH ? AND k = ?": the k vectors nearest to the query among
\* all vectors of the table.
KNearest(vec, query, k) ==
  {e \in vec :
     Cardinality({f \in vec : Distance(query, f.id) < Distance(query, e.id)}) < k}

\* The joined rows of a set of vectors, as a sequence in ascending distance.
RECURSIVE OrderByDistance(_, _)
OrderByDistance(rows, d) ==
  IF rows = {} THEN <<>>
  ELSE IF \E r \in rows : r.distance = d
  THEN <<CHOOSE r \in rows : r.distance = d>>
       \o OrderByDistance({r \in rows : r.distance # d}, d + 1)
  ELSE OrderByDistance(rows, d + 1)

\* vec_issues LEFT JOIN issues, "k = ?" on the vector scan and the
\* repository as a further condition on the joined row, ORDER BY distance.
similarity_search_issues_any_repository(S, repo, query, top_k) ==
  LET nearest == KNearest(S.vec_issues, query, top_k)
      joined ==
        {[id |-> r.id, distance |-> Distance(query, r.id),
          repo_name |-> r.repo_name, issue_number |-> r.issue_number,
          title |-> r.title] :
           r \in {x \in S.issues : \E e \in nearest : e.id = x.id}}
  IN OrderByDistance(joined, 1)

similarity_search_issues(S, repo, query, top_k) ==
  LET nearest == KNearest(S.vec_issues, query, top_k)
      joined ==
        {[id |-> r.id, distance |-> Distance(query, r.id),
          repo_name |-> r.repo_name, issue_number |-> r.issue_number,
          title |-> r.title] :
           r \in {x \in S.issues :
                    x.repo_name = repo /\ \E e \in nearest : e.id = x.id}}
  IN OrderByDistance(joined, 1)

\* --------------------------------------------- database.py: scoped query
\* A query text, by its parts:
\*   verb     first word of the text ("" when the text is blank)
\*   cols     what is selected: "COUNT(*)" or "*"
\*   schema   schema qualifier of the table reference, "" when unqualified
\*   table    the table name as spelled
\*   title    the string literal of  WHERE title = '...', "" when no WHERE
\*   trailing number of ';' that end the text
\*   more     TRUE when a second statement follows a ';'
Query(verb, cols, schema, table, title, trailing, more) ==
  [verb |-> verb, cols |-> cols, schema |-> schema, table |-> table,
   title |-> title, trailing |-> trailing, more |-> more]

Queries ==
  {Query("select", "COUNT(*)", "", "issues", "", 0, FALSE),
   Query("select", "COUNT(*)", "", "ISSUES", "", 1, FALSE),
   Query("select", "COUNT(*)", "", "issues", "bug", 0, FALSE),
   Query("select", "COUNT(*)", "", "issues", "issues", 0, FALSE),
   Query("select", "COUNT(*)", "main", "issues", "", 0, FALSE),
   Query("select", "*", "", "repository_issues", "", 0, FALSE),
   Query("select", "COUNT(*)", "", "issues", "", 0, TRUE),
   Query("delete", "*", "", "issues", "", 0, FALSE),
   Query("", "", "", "", "", 0, FALSE)}

\* str.lower() and SQLite's case-insensitive identifiers and keywords.
Lower(word) ==
  IF word \in {"ISSUES", "Issues"} THEN "issues"
  ELSE IF word \in {"SELECT", "Select"} THEN "select"
  ELSE word

\* re.sub(r'\bissues\b', 'issues_filtered', text, flags=re.IGNORECASE) on
\* one word of the text.
re_sub_word(word) == IF Lower(word) = "issues" THEN "issues_filtered" ELSE word

\* The substitution runs over the whole text: the table reference and the
\* content of a string literal alike.
re_sub(q) ==
  [q EXCEPT !.schema = re_sub_word(@), !.table = re_sub_word(@),
            !.title = re_sub_word(@)]

SqlError(q) == [error |-> TRUE, rows |-> {}, query |-> q]
SqlRows(rows, q) == [error |-> FALSE, rows |-> rows, query |-> q]

MainTables == {"issues", "vec_issues", "repository_data", "repository_issues",
               "visualization_cache"}

\* cursor.execute(q).fetchall() on a connection whose main schema is S and
\* whose temp schema holds the table issues_filtered with rows temp.
Execute(S, temp, q) ==
  LET name == Lower(q.table)
      known ==
        \/ q.schema \in {"", "temp"} /\ name = "issues_filtered"
        \/ q.schema \in {"", "main"} /\ name \in MainTables
      table ==
        IF name = "issues_filtered" THEN temp
        ELSE IF name = "issues" THEN S.issues
        ELSE IF name = "vec_issues" THEN S.vec_issues
        ELSE IF name = "repository_data" THEN S.repository_data
        ELSE IF name = "repository_issues" THEN S.repository_issues
        ELSE S.visualization_cache
      has_title == name \in {"issues", "issues_filtered"}
      matching ==
        IF q.title = "" THEN table ELSE {r \in table : r.title = q.title}
  IN
  IF ~known THEN SqlError(q)
  ELSE IF q.title # "" /\ ~has_title THEN SqlError(q)
  ELSE IF q.cols = "COUNT(*)" THEN SqlRows({Cardinality(matching)}, q)
  ELSE SqlRows(matching, q)

\* What a statement that is not a SELECT leaves in the main schema when it
\* is handed to cursor.execute on a connection that is closed without a
\* commit: DROP TABLE is not run in a transaction and stays; a DELETE opens
\* one that is rolled back.
Effect(S, q) ==
  LET name == Lower(q.table) IN
  IF q.verb # "drop" \/ q.more \/ q.schema \notin {"", "main"} THEN S
  ELSE IF name = "issues" THEN [S EXCEPT !.issues = {}]
  ELSE IF name = "vec_issues" THEN [S EXCEPT !.vec_issues = {}]
  ELSE IF name = "repository_data" THEN [S EXCEPT !.repository_data = {}]
  ELSE IF name = "repository_issues" THEN [S EXCEPT !.repository_issues = {}]
  ELSE IF name = "visualization_cache" THEN [S EXCEPT !.visualization_cache = {}]
  ELSE S

\* cursor.execute(text).fetchall() and the column names: two statements in
\* one text raise, and so does reading the columns of a statement that is
\* not a SELECT.
Run(S, temp, q) ==
  IF q.more \/ Lower(q.verb) # "select" THEN SqlError(q) ELSE Execute(S, temp, q)

get_db_conn_shared(leftover) == leftover

\* sqlite3.connect: every call gets a connection of its own, with an empty
\* temp schema whatever other connections hold.
get_db_conn(leftover) == {}

CloseConnection_kept_open(temp) == temp

\* conn.close() on the way out of get_db_connection: the temp tables of
\* the connection go with it.
CloseConnection(temp) == {}

\* "DROP TABLE IF EXISTS issues_filtered", which the finally clause lets
\* fail with a warning.
DropOutcomes == {"ok", "fail"}

DropProjection(temp, drop) ==
  IF drop = "ok" THEN {t \in temp : t.name # "issues_filtered"} ELSE temp

\* sql_query.strip().rstrip(';'): every ';' that ends the text goes.
Sanitize(sql_query) == [sql_query EXCEPT !.trailing = 0]

Rejection_without_separator_check(sanitized_query) ==
  IF sanitized_query.verb = "" THEN "Empty SQL query provided."
  ELSE IF Lower(sanitized_query.verb) # "select"
  THEN "Only SELECT statements are allowed."
  ELSE ""

Rejection_without_select_check(sanitized_query) ==
  IF sanitized_query.verb = "" THEN "Empty SQL query provided."
  ELSE IF sanitized_query.more THEN "Multiple SQL statements are not allowed."
  ELSE ""

\* The three checks on the sanitized text; "" when it passes them.
Rejection(sanitized_query) ==
  IF sanitized_query.verb = "" THEN "Empty SQL query provided."
  ELSE IF Lower(sanitized_query.verb) # "select"
  THEN "Only SELECT statements are allowed."
  ELSE IF sanitized_query.more THEN "Multiple SQL statements are not allowed."
  ELSE ""

\* One call of execute_sql_query_on_issues on store S while the open
\* connections hold the temp tables leftover: the connection, the checks,
\* the temp table of the repository's rows, the rewrite, the execution, the
\* drop in the finally clause and the close.  The answer says what the
\* call left behind, why it rejected the text ("" when it did not), whether
\* the text reached cursor.execute, and the result handed back.
ScopedQueryCall(S, leftover, repo, sql_query, drop) ==
  LET conn == get_db_conn(leftover)
      sanitized_query == Sanitize(sql_query)
      why == Rejection(sanitized_query)
      issues_filtered ==
        [name |-> "issues_filtered",
         rows |-> {r \in S.issues : r.repo_name = repo}]
      created == {t \in conn : t.name # "issues_filtered"} \cup {issues_filtered}
      filtered_query == re_sub(sanitized_query)
      result == Run(S, issues_filtered.rows, filtered_query)
      at_return == DropProjection(IF why = "" THEN created ELSE conn, drop)
  IN
  [S |-> IF why = "" THEN Effect(S, filtered_query) ELSE S,
   temp |-> CloseConnection(at_return),
   rejected |-> why,
   executed |-> why = "",
   result |-> IF why = "Empty SQL query provided." THEN SqlError(sql_query)
              ELSE IF why # "" THEN SqlError(sanitized_query)
              ELSE IF result.error THEN SqlError(sql_query)
              ELSE result]

\* What the caller of execute_sql_query_on_issues gets back.
execute_sql_query_on_issues(S, repo, sql_query) ==
  ScopedQueryCall(S, {}, repo, sql_query, "ok").result

\* ------------------------------------------------------ main.py: the chat
DefaultTopK == 15
ChatApproaches == {"rag", "sql", "error"}

\* chat_with_issues: resolve the issue batch, index it (a failure there is
\* logged and passed over), then let the model choose between similarity
\* search and a SQL query of its own; "error" is any failure of the model
\* calls.  What the tool found goes back in the chat history.
chat_with_issues(S, t, n, repo, o_issues, embed, approach, sql_query) ==
  LET r == get_issues_data(S, t, n, repo, FALSE, o_issues)
      S2 == save_issues_with_embeddings(r.S, repo, r.resp.data, embed).S
      calls == r.resp.calls \cup {Call("decide_approach", approach)}
  IN
  IF r.resp.status # 200 THEN r
  ELSE IF approach = "rag"
  THEN Result(S2, Resp(200, "none", FALSE,
                       Data("chat", n, "rag",
                            <<similarity_search_issues(S2, repo, "bug", DefaultTopK)>>),
                       calls, None))
  ELSE IF approach = "sql" /\ sql_query.verb # ""
  THEN Result(S2, Resp(200, "none", FALSE,
                       Data("chat", n, "sql",
                            <<execute_sql_query_on_issues(S2, repo, sql_query)>>),
                       calls, None))
  ELSE Result(S2, Resp(ExceptException(500), "none", FALSE, None, calls, None))

\* ------------------------------------------------- main.py: clear_cache
\* Where a clear can fail: at one of its three DELETEs, at conn.commit(),
\* or at volume.commit() after the transaction is committed.
ClearFailures ==
  {"none", "repository_data", "repository_issues", "visualization_cache",
   "commit", "volume_commit"}

DeleteRepo_every_repository(S, repo, tables) ==
  [S EXCEPT
     !.repository_data = IF "repository_data" \in tables THEN {} ELSE @,
     !.repository_issues = IF "repository_issues" \in tables THEN {} ELSE @,
     !.visualization_cache = IF "visualization_cache" \in tables THEN {} ELSE @]

\* The DELETE ... WHERE repo_name = ? statements on the given tables.
DeleteRepo(S, repo, tables) ==
  [S EXCEPT
     !.repository_data =
        IF "repository_data" \in tables THEN @ \ RowsOf(@, repo) ELSE @,
     !.repository_issues =
        IF "repository_issues" \in tables THEN @ \ RowsOf(@, repo) ELSE @,
     !.visualization_cache =
        IF "visualization_cache" \in tables THEN @ \ RowsOf(@, repo) ELSE @]

ClearedTables == {"repository_data", "repository_issues", "visualization_cache"}

clear_cache_autocommit(S, repo, fail) ==
  LET calls == {Call("clear_cache", fail)}
      done == IF fail = "repository_data" THEN {}
              ELSE IF fail = "repository_issues" THEN {"repository_data"}
              ELSE IF fail = "visualization_cache"
                   THEN {"repository_data", "repository_issues"}
              ELSE ClearedTables
  IN
  Result(DeleteRepo(S, repo, done),
         Resp(IF fail = "none" THEN 200 ELSE 500, "none", FALSE, None, calls, None))

\* The three DELETEs run in one transaction on one connection; an exception
\* before the commit leaves the connection to be dropped uncommitted, which
\* rolls the transaction back.
clear_cache(S, repo, fail) ==
  LET calls == {Call("clear_cache", fail)} IN
  IF fail = "none"
  THEN Result(DeleteRepo(S, repo, ClearedTables),
              Resp(200, "none", FALSE, None, calls, None))
  ELSE IF fail = "volume_commit"
  THEN Result(DeleteRepo(S, repo, ClearedTables),
              Resp(500, "none", FALSE, None, calls, None))
  ELSE Result(S, Resp(500, "none", FALSE, None, calls, None))

\* ------------------------------------------------------- the state machine
NoResp == Resp(0, "none", FALSE, None, {}, None)

\* A request slot: where its handler stands, the request, the number n of
\* the request, the issue batch and the value it carries, the timestamp its
\* save has read, the producers it has run, the rows it has written and its
\* response.
IdleTask ==
  [pc |-> "idle", op |-> "none", repo |-> "", field |-> "", n |-> 0,
   batch |-> None, value |-> None, stamp |-> 0, ran |-> {}, wrote |-> {},
   resp |-> NoResp]

Init ==
  /\ now = 0
  /\ repository_data = {}
  /\ repository_issues = {}
  /\ visualization_cache = {}
  /\ issues = {}
  /\ vec_issues = {}
  /\ nreq = 0
  /\ last = [op |-> "none", repo |-> "", field |-> "", vtype |-> NoType,
             force_refresh |-> FALSE, t |-> 0, resp |-> NoResp]
  /\ prev = Store({}, {}, {}, {}, {})
  /\ tasks = [i \in Tasks |-> IdleTask]
  /\ temp_tables = {}
  /\ connections = {}
  /\ uncommitted = {}

\* Where the handlers call volume.commit().  The resource handlers and
\* get_issues_data call it after each save, and the chat after indexing.
\* The four visualize handlers and get_ldavis call it once, after saving
\* their artifact, so an issue list they saved before answering 404 or 500
\* is not followed by it; get_topics_from_ldavis has the one of the
\* get_ldavis it calls.  The nomic handlers save their artifact and return:
\* only the save of get_issues_data is followed by a commit.
Uncommitted(op, repo, field, S, res) ==
  IF op \in {"get_nomic_atlas_topics", "get_nomic_atlas_topics_get"}
  THEN TablesWritten(S, res.S) \cap {"visualization_cache"}
  ELSE IF op \in {"get_wordcloud", "get_topics", "get_insights", "get_ldavis"}
  THEN IF res.resp.status = 200 THEN {} ELSE TablesWritten(S, res.S)
  ELSE IF op = "get_topics_from_ldavis"
  THEN IF VizRowsOf(res.S.visualization_cache, repo, VizType("ldavis", field))
            # VizRowsOf(S.visualization_cache, repo, VizType("ldavis", field))
       THEN {}
       ELSE TablesWritten(S, res.S)
  ELSE {}

\* One request served from start to end: the handler's writes reach the
\* store and its response is recorded.
Serve(op, repo, field, force_refresh, res) ==
  /\ nreq < MaxRequests
  /\ nreq' = nreq + 1
  /\ repository_data' = res.S.repository_data
  /\ repository_issues' = res.S.repository_issues
  /\ visualization_cache' = res.S.visualization_cache
  /\ issues' = res.S.issues
  /\ vec_issues' = res.S.vec_issues
  /\ last' = [op |-> op, repo |-> repo, field |-> field, vtype |-> NoType,
              force_refresh |-> force_refresh, t |-> now, resp |-> res.resp]
  /\ prev' = CurStore
  /\ connections' = {}
  /\ uncommitted' = Uncommitted(op, repo, field, CurStore, res)
  /\ UNCHANGED <<now, tasks, temp_tables>>

\* Time passes between requests.
Tick ==
  /\ nreq < MaxRequests
  /\ \E t \in Instants : t > now /\ now' = t
  /\ UNCHANGED <<repository_data, repository_issues, visualization_cache,
                 issues, vec_issues, nreq, last, prev, tasks, temp_tables,
                 connections, uncommitted>>

RepositoryInfo ==
  \E repo \in Repos, force \in BOOLEAN, o \in InfoOutcomes :
    Serve("get_repository_info_api", repo, "", force,
          get_repository_info_api(CurStore, now, nreq + 1, repo, force, o))

RepositoryIssues ==
  \E repo \in Repos, force \in BOOLEAN, o \in IssuesOutcomes :
    Serve("get_issues_data", repo, "", force,
          get_issues_data(CurStore, now, nreq + 1, repo, force, o))

RepositoryInsights ==
  \E repo \in Repos, force \in BOOLEAN, oi \in IssuesOutcomes, o \in InsightsOutcomes :
    Serve("get_repository_insights_api", repo, "", force,
          get_repository_insights_api(CurStore, now, nreq + 1, repo, force, oi, o))

Wordcloud ==
  \E repo \in Repos, field \in Fields, force \in BOOLEAN,
     oi \in IssuesOutcomes, o \in WordcloudOutcomes :
    Serve("get_wordcloud", repo, field, force,
          get_wordcloud(CurStore, now, nreq + 1, repo, field, force, oi, o))

Topics ==
  \E repo \in Repos, field \in Fields, force \in BOOLEAN,
     oi \in IssuesOutcomes, o \in TopicsOutcomes :
    Serve("get_topics", repo, field, force,
          get_topics(CurStore, now, nreq + 1, repo, field, force, oi, o))

Insights ==
  \E repo \in Repos, force \in BOOLEAN, oi \in IssuesOutcomes, o \in InsightsOutcomes :
    Serve("get_insights", repo, "", force,
          get_insights(CurStore, now, nreq + 1, repo, force, oi, o))

Ldavis ==
  \E repo \in Repos, field \in Fields, force \in BOOLEAN,
     oi \in IssuesOutcomes, o \in LdavisOutcomes :
    Serve("get_ldavis", repo, field, force,
          get_ldavis(CurStore, now, nreq + 1, repo, field, force, oi, o))

TopicsFromLdavis ==
  \E repo \in Repos, field \in Fields, force \in BOOLEAN,
     oi \in IssuesOutcomes, o \in LdavisOutcomes :
    Serve("get_topics_from_ldavis", repo, field, force,
          get_topics_from_ldavis(CurStore, now, nreq + 1, repo, field, force, oi, o))

NomicPost ==
  \E repo \in Repos, field \in Fields, force \in BOOLEAN,
     oi \in IssuesOutcomes, o \in NomicOutcomes :
    Serve("get_nomic_atlas_topics", repo, field, force,
          get_nomic_atlas_topics(CurStore, now, nreq + 1, repo, field, force, oi, o))

NomicGet ==
  \E repo \in Repos, field \in Fields, force \in BOOLEAN,
     oi \in IssuesOutcomes, o \in NomicOutcomes :
    Serve("get_nomic_atlas_topics_get", repo, field, force,
          get_nomic_atlas_topics_get(CurStore, now, nreq + 1, repo, field, force, oi, o))

Next ==
  \/ Tick
  \/ RepositoryInfo
  \/ RepositoryIssues
  \/ RepositoryInsights
  \/ Wordcloud
  \/ Topics
  \/ Insights
  \/ Ldavis
  \/ TopicsFromLdavis
  \/ NomicPost
  \/ NomicGet

Spec == Init /\ [][Next]_vars

\* ------------------------------------------- the store operations alone
\* What a caller hands to a save: a JSON object, the same object built from
\* numpy and pandas parts, and the empty object.
Payloads(kind, n) ==
  {Data(kind, n, "", <<>>), PyData(kind, n, "", <<>>), EmptyValue}

ArtifactTypes ==
  {InsightsType} \cup
  {VizType(prefix, field) :
     prefix \in {"wordcloud", "topics", "ldavis", "topics_from_ldavis",
                 "nomic_atlas_topics"},
     field \in Fields}

\* One call of a store operation: its effect reaches the store and the
\* value it was given is recorded.
StoreCall(op, repo, vtype, S, data) ==
  /\ nreq < MaxRequests
  /\ nreq' = nreq + 1
  /\ repository_data' = S.repository_data
  /\ repository_issues' = S.repository_issues
  /\ visualization_cache' = S.visualization_cache
  /\ issues' = S.issues
  /\ vec_issues' = S.vec_issues
  /\ last' = [op |-> op, repo |-> repo, field |-> vtype[2], vtype |-> vtype,
              force_refresh |-> FALSE, t |-> now,
              resp |-> Resp(200, "none", FALSE, data, {}, None)]
  /\ prev' = CurStore
  /\ connections' = {}
  /\ uncommitted' = TablesWritten(CurStore, S)
  /\ UNCHANGED <<now, tasks, temp_tables>>

SaveInfo ==
  \E repo \in StoreRepos, data \in {Data("info", nreq + 1, "", <<>>)} :
    StoreCall("save_repository_info", repo, NoType,
              save_repository_info(CurStore, now, repo, data), data)

SaveIssues ==
  \E repo \in StoreRepos :
    LET data == Data("issues", nreq + 1, "", Upstream(repo)) IN
    StoreCall("save_repository_issues", repo, NoType,
              save_repository_issues(CurStore, now, repo, data), data)

SaveArtifact ==
  \E repo \in StoreRepos, vtype \in ArtifactTypes,
     data \in Payloads("artifact", nreq + 1) :
    StoreCall("save_visualization_data", repo, vtype,
              save_visualization_data(CurStore, now, repo, vtype, data), data)

\* save_issues_with_embeddings called on what GitHub lists.
IndexIssues ==
  \E repo \in StoreRepos, embed \in EmbedOutcomes :
    LET data == Data("issues", nreq + 1, "", Upstream(repo)) IN
    StoreCall("save_issues_with_embeddings", repo, NoType,
              save_issues_with_embeddings(CurStore, repo, data, EmbedAll(embed)).S,
              data)

\* The connection of clear_cache is closed by the statement after
\* conn.commit(): a DELETE or the commit that raises leaves it open.
ClearConnections(fail) ==
  IF fail \in {"repository_data", "repository_issues", "visualization_cache",
               "commit"}
  THEN {"clear_cache"}
  ELSE {}

\* DELETE /api/cache/{repo} and POST /cache/clear.
ClearCache ==
  \E repo \in StoreRepos, fail \in ClearFailures :
    LET res == clear_cache(CurStore, repo, fail) IN
    /\ repository_data' = res.S.repository_data
    /\ repository_issues' = res.S.repository_issues
    /\ visualization_cache' = res.S.visualization_cache
    /\ issues' = res.S.issues
    /\ vec_issues' = res.S.vec_issues
    /\ last' = [op |-> "clear_cache", repo |-> repo, field |-> "", vtype |-> NoType,
                force_refresh |-> FALSE, t |-> now, resp |-> res.resp]
    /\ prev' = CurStore
    /\ connections' = ClearConnections(fail)
    /\ uncommitted' = IF fail = "volume_commit" THEN TablesWritten(CurStore, res.S)
                       ELSE {}
    /\ UNCHANGED <<now, nreq, tasks, temp_tables>>

\* What the model's tool call can hold: an approach and, with "sql", a
\* query text.
ToolCalls ==
  {<<approach, Query("", "", "", "", "", 0, FALSE)>> :
     approach \in ChatApproaches \ {"sql"}}
  \cup {<<"sql", sql_query>> : sql_query \in Queries}

ChatAsk ==
  \E repo \in StoreRepos, oi \in IssuesOutcomes, embed \in EmbedOutcomes,
     call \in ToolCalls :
    Serve("chat_with_issues", repo, "", FALSE,
          chat_with_issues(CurStore, now, nreq + 1, repo, oi, EmbedAll(embed),
                           call[1], call[2]))

\* The store operations with clear_cache.
NextClear ==
  \/ SaveInfo
  \/ SaveIssues
  \/ SaveArtifact
  \/ IndexIssues
  \/ ClearCache

SpecClear == Init /\ [][NextClear]_vars

\* The chat with clear_cache.
NextChat ==
  \/ Tick
  \/ ChatAsk
  \/ ClearCache

SpecChat == Init /\ [][NextChat]_vars

NextStore ==
  \/ Tick
  \/ SaveInfo
  \/ SaveIssues
  \/ SaveArtifact

SpecStore == Init /\ [][NextStore]_vars

\* ------------------------------------------------ the scoped query alone
\* The texts a caller hands to the executor: those of the chat and, with
\* them, a text that ends in two separators, SELECT in capitals, a text
\* that is one separator and nothing else, and a DROP TABLE.
QueryTexts ==
  Queries \cup
  {Query("select", "COUNT(*)", "", "issues", "", 2, FALSE),
   Query("SELECT", "COUNT(*)", "", "issues", "", 0, FALSE),
   Query("", "", "", "", "", 1, FALSE),
   Query("drop", "", "", "repository_issues", "", 0, FALSE)}

\* One call of execute_sql_query_on_issues: what it leaves in the store
\* and on the connections, and its text, verdict and result for the record.
ScopedQuery ==
  \E repo \in StoreRepos, sql_query \in QueryTexts, drop \in DropOutcomes :
    LET call == ScopedQueryCall(CurStore, temp_tables, repo, sql_query, drop) IN
    /\ repository_data' = call.S.repository_data
    /\ repository_issues' = call.S.repository_issues
    /\ visualization_cache' = call.S.visualization_cache
    /\ issues' = call.S.issues
    /\ vec_issues' = call.S.vec_issues
    /\ temp_tables' = call.temp
    /\ last' = [op |-> "execute_sql_query_on_issues", repo |-> repo,
                field |-> "", vtype |-> NoType, force_refresh |-> FALSE,
                t |-> now,
                resp |-> Resp(200, "none", FALSE,
                              Data("sql", nreq, call.rejected,
                                   <<sql_query, call.result>>),
                              IF call.executed
                              THEN {Call("cursor.execute", drop)} ELSE {},
                              None)]
    /\ prev' = CurStore
    /\ connections' = {}
    /\ uncommitted' = TablesWritten(CurStore, call.S)
    /\ UNCHANGED <<now, nreq, tasks>>

NextQuery ==
  \/ SaveIssues
  \/ IndexIssues
  \/ ScopedQuery

SpecQuery == Init /\ [][NextQuery]_vars

\* ------------------------------------------------- the issue index alone
\* The batches save_issues_with_embeddings is called with.  For repository
\* A: what GitHub lists; issue 1 under a new title with an issue that has
\* neither title nor body and a plain one; a legacy batch with an element
\* that does not decode, one that does, one without id and one whose text
\* is white space; a batch whose second record has no creation date; one
\* whose second record carries an id of repository B; one whose first
\* record has a null title.  For repository B: what GitHub lists.
IndexBatches(repo) ==
  IF repo = "A"
  THEN {Upstream("A"),
        <<Titled(Issue("dict", "101", "1"), "changed"),
          WithText(Issue("dict", "103", "3"), "", ""),
          Issue("dict", "104", "4")>>,
        <<Issue("badstr", "102", "2"), Issue("str", "103", "3"),
          Issue("dict", "None", "5"),
          WithText(Issue("dict", "104", "4"), " ", "None")>>,
        <<Issue("dict", "102", "2"), WithoutDate(Issue("dict", "103", "3")),
          Issue("dict", "104", "4")>>,
        <<Issue("dict", "104", "4"), Issue("dict", "201", "5")>>,
        <<Titled(Issue("dict", "103", "3"), "None"), Issue("dict", "104", "4")>>}
  ELSE {Upstream("B")}

\* The embedding service answers every call, fails every call, or fails
\* the call for one issue.
EmbedChoices ==
  {EmbedAll("ok"), EmbedAll("fail"),
   [EmbedAll("ok") EXCEPT !["102"] = "fail"],
   [EmbedAll("ok") EXCEPT !["104"] = "fail"]}

\* One call of save_issues_with_embeddings: the batch, the issues whose
\* embedding call failed and whether the call raised are recorded.
IndexBatch ==
  \E repo \in StoreRepos, embed \in EmbedChoices :
    \E batch \in IndexBatches(repo) :
      LET data == Data("issues", nreq + 1, "", batch)
          r == save_issues_with_embeddings(CurStore, repo, data, embed)
      IN
      /\ nreq < MaxRequests
      /\ nreq' = nreq + 1
      /\ issues' = r.S.issues
      /\ vec_issues' = r.S.vec_issues
      /\ last' = [op |-> "save_issues_with_embeddings", repo |-> repo,
                  field |-> "", vtype |-> NoType, force_refresh |-> FALSE,
                  t |-> now,
                  resp |-> Resp(IF r.raised THEN 500 ELSE 200, "none", FALSE,
                                data,
                                {Call("embed_failed", id) :
                                   id \in {i \in IssueIds : embed[i] = "fail"}},
                                None)]
      /\ prev' = CurStore
      /\ connections' = {}
      /\ uncommitted' = TablesWritten(CurStore, r.S)
      /\ UNCHANGED <<now, repository_data, repository_issues,
                     visualization_cache, tasks, temp_tables>>

\* The values of top_k: small ones and the default.
TopKs == {1, 2, DefaultTopK}

\* One call of similarity_search_issues; its rows are recorded.
Search ==
  \E repo \in StoreRepos, query \in SearchQueries, top_k \in TopKs :
    /\ last' = [op |-> "similarity_search_issues", repo |-> repo,
                field |-> query, vtype |-> NoType, force_refresh |-> FALSE,
                t |-> now,
                resp |-> Resp(200, "none", FALSE,
                              Data("search", top_k, "",
                                   similarity_search_issues(CurStore, repo,
                                                            query, top_k)),
                              {}, None)]
    /\ prev' = CurStore
    /\ connections' = {}
    /\ uncommitted' = {}
    /\ UNCHANGED <<now, repository_data, repository_issues, visualization_cache,
                   issues, vec_issues, nreq, tasks, temp_tables>>

NextIndex ==
  \/ IndexBatch
  \/ Search
  \/ ClearCache

SpecIndex == Init /\ [][NextIndex]_vars

\* ------------------------------------------------- concurrent handlers
\* get_issues_data and get_wordcloud (force_refresh = false) run by several
\* request tasks at once.  A task is interleaved with the others between its
\* store operations and producer calls; each store operation opens its own
\* connection and runs one statement.  Request number i runs in slot i.
ConcurrentOps == {"get_issues_data", "get_wordcloud"}

StoreUnchanged ==
  UNCHANGED <<repository_data, repository_issues, visualization_cache,
              issues, vec_issues>>

\* Task i moves on; the clock, the store and the sequential ghosts stay.
Step(i, task) ==
  /\ tasks' = [tasks EXCEPT ![i] = task]
  /\ UNCHANGED <<now, nreq, last, prev, temp_tables, connections, uncommitted>>

Finished(task, resp) == [task EXCEPT !.pc = "done", !.resp = resp]

Begin ==
  \E op \in ConcurrentOps, repo \in Repos, field \in Fields :
    LET i == nreq + 1 IN
    /\ nreq < MaxRequests
    /\ i \in Tasks
    /\ nreq' = i
    /\ tasks' = [tasks EXCEPT ![i] =
                   [IdleTask EXCEPT !.pc = "check", !.op = op, !.repo = repo,
                                    !.field = field, !.n = i]]
    /\ StoreUnchanged
    /\ UNCHANGED <<now, last, prev, temp_tables, connections, uncommitted>>

\* The cache check that opens both handlers.
CheckCache ==
  \E i \in Tasks :
    LET task == tasks[i]
        cached_issues ==
          get_repository_issues(CurStore, now, task.repo, DefaultMaxAgeHours)
        cached_data ==
          get_visualization_data(CurStore, now, task.repo,
                                 VizType("wordcloud", task.field), DefaultMaxAgeHours)
    IN
    /\ task.pc = "check"
    /\ StoreUnchanged
    /\ IF task.op = "get_issues_data"
       THEN IF Truthy(cached_issues) /\ CacheIsComplete(cached_issues.items)
            THEN Step(i, Finished(task, Resp(200, "cache", TRUE, cached_issues, {}, None)))
            ELSE Step(i, [task EXCEPT !.pc = "fetch"])
       ELSE IF Truthy(cached_data)
            THEN Step(i, Finished(task, Resp(200, "cache", TRUE, cached_data, {}, None)))
            ELSE Step(i, [task EXCEPT !.pc = "resolve"])

\* get_wordcloud reads the cached issue batch.
ReadBatch ==
  \E i \in Tasks :
    LET task == tasks[i]
        issues_data ==
          get_repository_issues(CurStore, now, task.repo, DefaultMaxAgeHours)
    IN
    /\ task.pc = "resolve"
    /\ StoreUnchanged
    /\ IF Truthy(issues_data)
       THEN Step(i, [task EXCEPT !.pc = "compute", !.batch = issues_data])
       ELSE Step(i, [task EXCEPT !.pc = "fetch"])

\* The remote fetch.
Fetch ==
  \E i \in Tasks, o \in IssuesOutcomes :
    LET task == tasks[i]
        f == get_issues(task.repo, o, task.n)
        ran == task.ran \cup {Call("get_issues", o)}
    IN
    /\ task.pc = "fetch"
    /\ StoreUnchanged
    /\ IF f.raised
       THEN Step(i, Finished([task EXCEPT !.ran = ran],
                             Resp(ExceptException(500), "none", FALSE, None, ran, None)))
       ELSE IF task.op = "get_wordcloud" /\ ~Truthy(f.value)
       THEN Step(i, Finished([task EXCEPT !.ran = ran],
                             Resp(ExceptException(404), "none", FALSE, None, ran, None)))
       ELSE Step(i, [task EXCEPT !.pc = "stamp_issues", !.ran = ran, !.value = f.value])

\* prepare_wordcloud_data on the resolved batch.
Compute ==
  \E i \in Tasks, o \in WordcloudOutcomes :
    LET task == tasks[i]
        p == prepare_wordcloud_data(o, task.n)
        ran == task.ran \cup {Call("prepare_wordcloud_data", o)}
    IN
    /\ task.pc = "compute"
    /\ StoreUnchanged
    /\ IF ~Truthy(p.value)
       THEN Step(i, Finished([task EXCEPT !.ran = ran],
                             Resp(ExceptException(404), "none", FALSE, None, ran, task.batch)))
       ELSE Step(i, [task EXCEPT !.pc = "stamp_viz", !.ran = ran, !.value = p.value])

\* A save encodes its argument and reads the clock before it opens its
\* connection.
Stamp ==
  \E i \in Tasks :
    LET task == tasks[i] IN
    /\ task.pc \in {"stamp_issues", "stamp_viz"}
    /\ StoreUnchanged
    /\ Step(i, [task EXCEPT !.stamp = now,
                            !.pc = IF @ = "stamp_issues" THEN "upsert_issues"
                                   ELSE "upsert_viz"])

\* The upsert of save_repository_issues, with the timestamp read before.
UpsertIssues ==
  \E i \in Tasks :
    LET task == tasks[i]
        S == save_repository_issues(CurStore, task.stamp, task.repo, task.value)
    IN
    /\ task.pc = "upsert_issues"
    /\ repository_issues' = S.repository_issues
    /\ UNCHANGED <<repository_data, visualization_cache, issues, vec_issues>>
    /\ LET written ==
             [task EXCEPT !.wrote = @ \cup
                {[repo_name |-> task.repo, data |-> json_dumps(task.value),
                  last_updated |-> task.stamp]}]
       IN
       IF task.op = "get_issues_data"
       THEN Step(i, Finished(written, Resp(200, "api", FALSE, task.value, task.ran, None)))
       ELSE Step(i, [written EXCEPT !.pc = "compute", !.batch = task.value])

\* The upsert of save_visualization_data, with the timestamp read before.
UpsertViz ==
  \E i \in Tasks :
    LET task == tasks[i]
        S == save_visualization_data(CurStore, task.stamp, task.repo,
                                     VizType("wordcloud", task.field), task.value)
    IN
    /\ task.pc = "upsert_viz"
    /\ visualization_cache' = S.visualization_cache
    /\ UNCHANGED <<repository_data, repository_issues, issues, vec_issues>>
    /\ Step(i, Finished([task EXCEPT !.wrote = @ \cup
                            {[repo_name |-> task.repo,
                              visualization_type |-> VizType("wordcloud", task.field),
                              data |-> json_dumps(task.value),
                              last_updated |-> task.stamp]}],
                        Resp(200, "generated", FALSE, task.value, task.ran, task.batch)))

NextConcurrent ==
  \/ Tick
  \/ Begin
  \/ CheckCache
  \/ ReadBatch
  \/ Fetch
  \/ Compute
  \/ Stamp
  \/ UpsertIssues
  \/ UpsertViz

SpecConcurrent == Init /\ [][NextConcurrent]_vars

\* Issue lists as a cache row can hold them: what GitHub lists, and legacy
\* lists in which the first, the second, or every element is a JSON string,
\* one of them a string that does not decode.
CachedBatches ==
  {GoodBatch,
   <<Issue("str", "101", "1"), Issue("dict", "102", "2")>>,
   <<Issue("dict", "101", "1"), Issue("str", "102", "2")>>,
   <<Issue("str", "101", "1"), Issue("badstr", "102", "2"),
     Issue("str", "103", "3")>>}

SaveCached ==
  \E repo \in StoreRepos, batch \in CachedBatches :
    LET data == Data("issues", nreq + 1, "", batch) IN
    StoreCall("save_repository_issues", repo, NoType,
              save_repository_issues(CurStore, now, repo, data), data)

\* One call of get_repository_issues; what it returns is recorded.
ReadCached ==
  \E repo \in StoreRepos :
    /\ last' = [op |-> "get_repository_issues", repo |-> repo, field |-> "",
                vtype |-> NoType, force_refresh |-> FALSE, t |-> now,
                resp |-> Resp(200, "none", FALSE,
                              get_repository_issues(CurStore, now, repo,
                                                    DefaultMaxAgeHours),
                              {}, None)]
    /\ prev' = CurStore
    /\ connections' = {}
    /\ uncommitted' = {}
    /\ UNCHANGED <<now, repository_data, repository_issues, visualization_cache,
                   issues, vec_issues, nreq, tasks, temp_tables>>

\* save_issues_with_embeddings called on such a list.
IndexCached ==
  \E repo \in StoreRepos, batch \in CachedBatches :
    LET data == Data("issues", nreq + 1, "", batch) IN
    StoreCall("save_issues_with_embeddings", repo, NoType,
              save_issues_with_embeddings(CurStore, repo, data, EmbedAll("ok")).S,
              data)

NextCached ==
  \/ Tick
  \/ SaveCached
  \/ ReadCached
  \/ IndexCached

SpecCached == Init /\ [][NextCached]_vars

\* The resource handlers alone, with the one handler that fills the
\* insights artifact.
NextCore ==
  \/ Tick
  \/ RepositoryInfo
  \/ RepositoryIssues
  \/ RepositoryInsights
  \/ Insights

SpecCore == Init /\ [][NextCore]_vars

\* The nomic handlers next to handlers of the default freshness class.
NextNomic ==
  \/ Tick
  \/ RepositoryInfo
  \/ RepositoryIssues
  \/ Wordcloud
  \/ NomicPost
  \/ NomicGet

SpecNomic == Init /\ [][NextNomic]_vars

\* ================================================================ claims
NomicOps == {"get_nomic_atlas_topics", "get_nomic_atlas_topics_get"}

KeyType(op, field) ==
  IF op \in {"get_repository_insights_api", "get_insights"} THEN InsightsType
  ELSE IF op = "get_wordcloud" THEN VizType("wordcloud", field)
  ELSE IF op = "get_topics" THEN VizType("topics", field)
  ELSE IF op = "get_ldavis" THEN VizType("ldavis", field)
  ELSE IF op = "get_topics_from_ldavis" THEN VizType("topics_from_ldavis", field)
  ELSE VizType("nomic_atlas_topics", field)

\* The rows of store S under the key that request op serves.
KeyRows(S, op, repo, field) ==
  IF op = "get_repository_info_api" THEN RowsOf(S.repository_data, repo)
  ELSE IF op = "get_issues_data" THEN RowsOf(S.repository_issues, repo)
  ELSE VizRowsOf(S.visualization_cache, repo, KeyType(op, field))

KeyProducer(op) ==
  IF op = "get_repository_info_api" THEN "get_info"
  ELSE IF op = "get_issues_data" THEN "get_issues"
  ELSE "prepare_repository_insights"

Ran(p) == \E c \in last.resp.calls : c.p = p

\* Some element is not an object, or lacks an id or a number.
HasBadElement(items) ==
  \E i \in 1..Len(items) :
     items[i].tag # "dict" \/ items[i].id = "None" \/ items[i].number = "None"

\* The rows of the last request's key as the request found them.
FoundRows == KeyRows(prev, last.op, last.repo, last.field)

AgeFound(row) == last.t - row.last_updated

\* The JSON document that the data column of a row holds.
Doc(row) == [row.data EXCEPT !.enc = @ - 1]

\* C1: a non-forced repository-info, issue-batch or insights request that
\* finds its keyed row fresh (an issue batch also non-empty and complete,
\* see C6) returns the stored data with source "cache", does not run the
\* key's producer and leaves the store as it found it.
C1_CacheHit ==
  (/\ last.op \in {"get_repository_info_api", "get_issues_data",
                   "get_repository_insights_api"}
   /\ ~last.force_refresh)
  => \A row \in FoundRows :
       (/\ AgeFound(row) <= DefaultMaxAgeHours
        /\ last.op = "get_issues_data" =>
             (row.data.items # <<>> /\ ~HasBadElement(row.data.items)))
       => /\ last.resp.status = 200
          /\ last.resp.source = "cache"
          /\ last.resp.data = Doc(row)
          /\ ~Ran(KeyProducer(last.op))
          /\ CurStore = prev

\* C2: a request with force_refresh = true never returns the cached row:
\* it runs a producer and its source is not "cache".
C2_ForcedInvalidation ==
  (last.op # "none" /\ last.force_refresh)
  => /\ ~last.resp.hit
     /\ last.resp.source # "cache"
     /\ last.resp.calls # {}

\* C3: each store read returns the row's data exactly when the row exists
\* and now - last_updated <= max_age_hours (equality included), and None
\* otherwise; no row is None.
FreshnessWindows == {ProcessingGraceHours, DefaultMaxAgeHours, NomicMaxAgeHours}

ReadAgrees(rows, got, W) ==
  /\ rows = {} => got = None
  /\ \A r \in rows :
       IF now - r.last_updated <= W THEN got = Doc(r) ELSE got = None

C3_FreshnessPolicy ==
  \A W \in FreshnessWindows, repo \in Repos :
    /\ ReadAgrees(RowsOf(repository_data, repo),
                  get_repository_info(CurStore, now, repo, W), W)
    /\ ReadAgrees(RowsOf(repository_issues, repo),
                  get_repository_issues(CurStore, now, repo, W), W)
    /\ \A vtype \in {InsightsType} \cup {r.visualization_type : r \in visualization_cache} :
         ReadAgrees(VizRowsOf(visualization_cache, repo, vtype),
                    get_visualization_data(CurStore, now, repo, vtype, W), W)

\* A repository-info row whose age equals the window exactly was served.
C3_Witness ==
  /\ last.op = "get_repository_info_api"
  /\ last.resp.hit
  /\ now = last.t
  /\ \E row \in FoundRows :
       AgeFound(row) = DefaultMaxAgeHours /\ last.resp.data = Doc(row)

\* C4: a handler of the default class never serves a row older than 24
\* hours; a nomic handler never serves one older than 168 hours, and a
\* non-forced nomic request finding a non-processing artifact aged over 24
\* and up to 168 hours serves it.
C4_TwoFreshnessClasses ==
  last.op # "none"
  => \A row \in FoundRows :
       /\ last.op \notin NomicOps =>
            (AgeFound(row) > DefaultMaxAgeHours => ~last.resp.hit)
       /\ last.op \in NomicOps =>
            /\ AgeFound(row) > NomicMaxAgeHours => ~last.resp.hit
            /\ (/\ ~last.force_refresh
                /\ row.data.status # "processing"
                /\ AgeFound(row) > DefaultMaxAgeHours
                /\ AgeFound(row) <= NomicMaxAgeHours)
               => (last.resp.hit /\ last.resp.data = Doc(row))

\* A nomic artifact older than 24 hours was served from the cache.
C4_Witness ==
  /\ last.op \in NomicOps
  /\ last.resp.hit
  /\ \E row \in FoundRows :
       AgeFound(row) > DefaultMaxAgeHours /\ last.resp.data = Doc(row)

FetchReturnedIssues ==
  \E c \in last.resp.calls : c.p = "get_issues" /\ c.out \in {"ok", "no_id"}

\* The part of C5 on an artifact within the grace period.
WithinGraceServedAsIs(row) ==
  AgeFound(row) <= ProcessingGraceHours
  => /\ last.resp.hit
     /\ last.resp.data = Doc(row)
     /\ last.resp.calls = {}
     /\ CurStore = prev

\* C5 as stated: on a processing nomic artifact within 168 hours a
\* non-forced request runs the nomic producer if and only if the artifact is
\* older than 1 hour, and otherwise returns it untouched.
C5_Original ==
  (last.op \in NomicOps /\ ~last.force_refresh)
  => \A row \in FoundRows :
       (row.data.status = "processing" /\ AgeFound(row) <= NomicMaxAgeHours)
       => /\ Ran("prepare_nomic_atlas_topics") <=> AgeFound(row) > ProcessingGraceHours
          /\ WithinGraceServedAsIs(row)

\* C5 amended: on a processing nomic artifact within 168 hours a non-forced
\* request forces the remote issue fetch if and only if the artifact is older
\* than 1 hour, and runs the nomic producer exactly when that fetch returned
\* a non-empty issue list; an artifact 1 hour old or newer is returned as it
\* is, no producer runs and nothing is written.
C5_ProcessingGrace ==
  (last.op \in NomicOps /\ ~last.force_refresh)
  => \A row \in FoundRows :
       (row.data.status = "processing" /\ AgeFound(row) <= NomicMaxAgeHours)
       => /\ Ran("get_issues") <=> AgeFound(row) > ProcessingGraceHours
          /\ Ran("prepare_nomic_atlas_topics") <=>
               (AgeFound(row) > ProcessingGraceHours /\ FetchReturnedIssues)
          /\ WithinGraceServedAsIs(row)

\* A processing artifact older than the grace period was regenerated.
C5_Witness ==
  /\ last.op \in NomicOps
  /\ ~last.force_refresh
  /\ Ran("prepare_nomic_atlas_topics")
  /\ \E row \in FoundRows :
       /\ row.data.status = "processing"
       /\ AgeFound(row) > ProcessingGraceHours
       /\ AgeFound(row) <= NomicMaxAgeHours

\* C6: get_issues_data never answers "cache" with a batch that has a bad
\* element; a non-forced request that finds a fresh batch with a bad element
\* runs the remote fetch, and what the fetch returns replaces the cached
\* batch.
C6_TrustButVerify ==
  last.op = "get_issues_data"
  => /\ last.resp.source = "cache" => ~HasBadElement(last.resp.data.items)
     /\ ~last.force_refresh =>
          \A row \in FoundRows :
            (AgeFound(row) <= DefaultMaxAgeHours /\ HasBadElement(row.data.items))
            => /\ Ran("get_issues")
               /\ (\E c \in last.resp.calls : c.out # "raise") =>
                    /\ last.resp.source = "api"
                    /\ last.resp.data.v = nreq
                    /\ RowsOf(repository_issues, last.repo) # {}
                    /\ \A r \in RowsOf(repository_issues, last.repo) :
                         Doc(r) = last.resp.data /\ r.last_updated = last.t

\* A fresh incomplete batch was found and replaced by a fetched one.
C6_Witness ==
  /\ last.op = "get_issues_data"
  /\ ~last.force_refresh
  /\ last.resp.source = "api"
  /\ \E row \in FoundRows :
       AgeFound(row) <= DefaultMaxAgeHours /\ HasBadElement(row.data.items)

\* C7: wordcloud, topics, insights and ldavis never hand their producer a
\* cached batch that has a bad element: finding one, they refetch.
C7_NoIncompleteBatchConsumed ==
  (last.op \in {"get_wordcloud", "get_topics", "get_insights", "get_ldavis"})
  => \A row \in RowsOf(prev.repository_issues, last.repo) :
       (/\ AgeFound(row) <= DefaultMaxAgeHours
        /\ HasBadElement(row.data.items)
        /\ last.resp.fed # None)
       => (Ran("get_issues") /\ last.resp.fed # Doc(row))

\* The stored record of a failed production: the ldavis error page, the
\* topic error record, a nomic timeout or serialisation error.
IsFailureRecord(d) ==
  \/ d.kind \in {"ldavis_error_page", "topics_error"}
  \/ d.kind = "nomic" /\ d.status \in {"timeout", "error"}

\* C8: no non-forced request is answered with status 200 from a row that
\* an earlier, failed production left in the store.
C8_FailureNeverCached ==
  (last.op # "none" /\ ~last.force_refresh /\ last.resp.status = 200)
  => ~(/\ last.resp.hit
       /\ last.resp.data.v < nreq
       /\ IsFailureRecord(last.resp.data))

EmptyOutcomes == {"http_error", "empty"}

\* C9: a request whose producer yielded an empty value answers 404, and one
\* whose producer raised answers 500.
C9_NotFoundDistinct ==
  \A c \in last.resp.calls :
    /\ c.out \in EmptyOutcomes => last.resp.status = 404
    /\ c.out = "raise" => last.resp.status = 500

\* C10: a request whose producer yielded an empty value leaves the store as
\* it found it.
C10_NotFoundNoWrite ==
  (\E c \in last.resp.calls : c.out \in EmptyOutcomes) => CurStore = prev

\* The responses of the handlers that serve artifact type vtype to a
\* non-forced request for repo made now, whatever their producers would do.
OrchestratorAnswers(repo, vtype) ==
  LET n == nreq + 1
      f == vtype[2]
      S == CurStore
  IN
  IF vtype = InsightsType
  THEN {get_insights(S, now, n, repo, FALSE, oi, o).resp :
          oi \in IssuesOutcomes, o \in InsightsOutcomes}
       \cup
       {get_repository_insights_api(S, now, n, repo, FALSE, oi, o).resp :
          oi \in IssuesOutcomes, o \in InsightsOutcomes}
  ELSE IF vtype[1] = "wordcloud"
  THEN {get_wordcloud(S, now, n, repo, f, FALSE, oi, o).resp :
          oi \in IssuesOutcomes, o \in WordcloudOutcomes}
  ELSE IF vtype[1] = "topics"
  THEN {get_topics(S, now, n, repo, f, FALSE, oi, o).resp :
          oi \in IssuesOutcomes, o \in TopicsOutcomes}
  ELSE IF vtype[1] = "ldavis"
  THEN {get_ldavis(S, now, n, repo, f, FALSE, oi, o).resp :
          oi \in IssuesOutcomes, o \in LdavisOutcomes}
  ELSE IF vtype[1] = "topics_from_ldavis"
  THEN {get_topics_from_ldavis(S, now, n, repo, f, FALSE, oi, o).resp :
          oi \in IssuesOutcomes, o \in LdavisOutcomes}
  ELSE {get_nomic_atlas_topics(S, now, n, repo, f, FALSE, oi, o).resp :
          oi \in IssuesOutcomes, o \in NomicOutcomes}
       \cup
       {get_nomic_atlas_topics_get(S, now, n, repo, f, FALSE, oi, o).resp :
          oi \in IssuesOutcomes, o \in NomicOutcomes}

\* C11: right after save_visualization_data stored a JSON payload under a
\* repository and artifact type, get_visualization_data returns a payload
\* equal to the one written, for every freshness window, and every handler
\* of the artifact type answers a non-forced request with that payload and
\* source "cache".
C11_RoundTrip ==
  (/\ last.op = "save_visualization_data"
   /\ now = last.t
   /\ ~last.resp.data.py)
  => /\ \A W \in FreshnessWindows :
          get_visualization_data(CurStore, now, last.repo, last.vtype, W)
            = last.resp.data
     /\ \A r \in OrchestratorAnswers(last.repo, last.vtype) :
          r.source = "cache" /\ r.data = last.resp.data

\* The rows of table that the key of the last store call does not cover.
OtherRows(table) ==
  {r \in table :
     \/ r.repo_name # last.repo
     \/ (last.op = "save_visualization_data" /\ r.visualization_type # last.vtype)}

\* The table of store S that save operation op writes.
TableOf(S, op) ==
  IF op = "save_repository_info" THEN S.repository_data
  ELSE IF op = "save_repository_issues" THEN S.repository_issues
  ELSE S.visualization_cache

SaveOps ==
  {"save_repository_info", "save_repository_issues", "save_visualization_data"}

\* C12: repository_data and repository_issues hold at most one row per
\* repository and visualization_cache at most one per (repository, artifact
\* type); after a save the row of its key holds the payload and the
\* timestamp of that save, every other row of that table is as it was, and
\* the other tables are unchanged.
C12_KeyUniqueness ==
  /\ \A r1, r2 \in repository_data : r1.repo_name = r2.repo_name => r1 = r2
  /\ \A r1, r2 \in repository_issues : r1.repo_name = r2.repo_name => r1 = r2
  /\ \A r1, r2 \in visualization_cache :
       (/\ r1.repo_name = r2.repo_name
        /\ r1.visualization_type = r2.visualization_type) => r1 = r2
  /\ last.op \in SaveOps =>
       /\ \E row \in TableOf(CurStore, last.op) \ OtherRows(TableOf(CurStore, last.op)) :
            /\ Doc(row) = [last.resp.data EXCEPT !.py = FALSE]
            /\ row.last_updated = last.t
       /\ OtherRows(TableOf(CurStore, last.op)) = OtherRows(TableOf(prev, last.op))
       /\ \A op \in SaveOps \ {last.op} : TableOf(CurStore, op) = TableOf(prev, op)

\* An artifact was saved over an older row of its key.
C12_Witness ==
  /\ last.op = "save_visualization_data"
  /\ \E old \in VizRowsOf(prev.visualization_cache, last.repo, last.vtype) :
       old.last_updated < last.t /\ Doc(old).v < last.resp.data.v

\* The producer that fills the key of a concurrent request.
OwnProducer(op) ==
  IF op = "get_issues_data" THEN "get_issues" ELSE "prepare_wordcloud_data"

RanOwn(task) == \E c \in task.ran : c.p = OwnProducer(task.op)

InFlight(task) == task.pc \notin {"idle", "done"}

\* C13: two requests for the same key that are in flight at the same time
\* have not both invoked the producer of that key.
C13_AtMostOneComputation ==
  \A i, j \in Tasks :
    (/\ i # j
     /\ InFlight(tasks[i]) /\ InFlight(tasks[j])
     /\ tasks[i].op = tasks[j].op
     /\ tasks[i].repo = tasks[j].repo
     /\ tasks[i].field = tasks[j].field)
    => ~(RanOwn(tasks[i]) /\ RanOwn(tasks[j]))

\* What the saves of the tasks were given to store: key, encoded payload
\* and the timestamp each save read.
Written == UNION {tasks[i].wrote : i \in Tasks}

IsVizRow(r) == "visualization_type" \in DOMAIN r

WrittenIssues(repo) == {w \in Written : ~IsVizRow(w) /\ w.repo_name = repo}

WrittenViz(repo, vtype) ==
  {w \in Written :
     IsVizRow(w) /\ w.repo_name = repo /\ w.visualization_type = vtype}

\* C14: once concurrent requests have written a key, the store holds
\* exactly one row for it, and that row is, payload and timestamp together,
\* the row one of those writes stored.
C14_NoCorruption ==
  /\ \A repo \in Repos :
       WrittenIssues(repo) # {} =>
         /\ Cardinality(RowsOf(repository_issues, repo)) = 1
         /\ RowsOf(repository_issues, repo) \subseteq WrittenIssues(repo)
  /\ \A repo \in Repos, field \in Fields :
       LET vtype == VizType("wordcloud", field) IN
       WrittenViz(repo, vtype) # {} =>
         /\ Cardinality(VizRowsOf(visualization_cache, repo, vtype)) = 1
         /\ VizRowsOf(visualization_cache, repo, vtype) \subseteq WrittenViz(repo, vtype)

\* Two requests both missed, both ran the producer of the same key and both
\* wrote, at different times.
C14_Witness ==
  \E i, j \in Tasks :
    /\ i # j
    /\ tasks[i].pc = "done" /\ tasks[j].pc = "done"
    /\ tasks[i].op = tasks[j].op
    /\ RanOwn(tasks[i]) /\ RanOwn(tasks[j])
    /\ tasks[i].resp.status = 200 /\ tasks[j].resp.status = 200
    /\ tasks[i].stamp # tasks[j].stamp

\* C15: the stored row of a key carries the greatest timestamp among the
\* saves made to that key.
C15_LastWriterWins ==
  /\ \A repo \in Repos :
       \A row \in RowsOf(repository_issues, repo), w \in WrittenIssues(repo) :
         w.last_updated <= row.last_updated
  /\ \A repo \in Repos, field \in Fields :
       \A row \in VizRowsOf(visualization_cache, repo, VizType("wordcloud", field)),
          w \in WrittenViz(repo, VizType("wordcloud", field)) :
         w.last_updated <= row.last_updated

\* The durable rows of a repository and the embeddings of those rows.
IssuesOf(S, repo) == {r \in S.issues : r.repo_name = repo}

EmbeddingsOf(S, repo) ==
  {e \in S.vec_issues : \E r \in IssuesOf(S, repo) : r.id = e.id}

CountIssues == Query("select", "COUNT(*)", "", "issues", "", 0, FALSE)

\* The five reads of a repository at time t with window W.
Reads(S, t, repo, W) ==
  [info |-> get_repository_info(S, t, repo, W),
   batch |-> get_repository_issues(S, t, repo, W),
   artifacts |-> [vtype \in ArtifactTypes |->
                    get_visualization_data(S, t, repo, vtype, W)],
   similar |-> similarity_search_issues(S, repo, "bug", DefaultTopK),
   count |-> execute_sql_query_on_issues(S, repo, CountIssues).rows]

\* C16: after a successful clear of a repository no row of it remains in
\* repository_data, repository_issues, visualization_cache, issues or
\* vec_issues: every get misses, similarity search finds nothing and the
\* scoped COUNT(*) is 0.
C16_ClearRemovesAll ==
  (last.op = "clear_cache" /\ last.resp.status = 200)
  => /\ RowsOf(repository_data, last.repo) = {}
     /\ RowsOf(repository_issues, last.repo) = {}
     /\ RowsOf(visualization_cache, last.repo) = {}
     /\ IssuesOf(CurStore, last.repo) = {}
     /\ EmbeddingsOf(prev, last.repo) \cap vec_issues = {}
     /\ \A W \in FreshnessWindows :
          Reads(CurStore, now, last.repo, W) =
            [info |-> None, batch |-> None,
             artifacts |-> [vtype \in ArtifactTypes |-> None],
             similar |-> <<>>, count |-> {0}]

\* C17: a clear of one repository, whatever its outcome, leaves the rows of
\* every other repository in all five tables as they were, and every read
\* of another repository answers as it would have before the clear.
C17_ClearFrame ==
  last.op = "clear_cache"
  => \A repo \in StoreRepos \ {last.repo} :
       /\ RowsOf(repository_data, repo) = RowsOf(prev.repository_data, repo)
       /\ RowsOf(repository_issues, repo) = RowsOf(prev.repository_issues, repo)
       /\ RowsOf(visualization_cache, repo) = RowsOf(prev.visualization_cache, repo)
       /\ IssuesOf(CurStore, repo) = IssuesOf(prev, repo)
       /\ EmbeddingsOf(CurStore, repo) = EmbeddingsOf(prev, repo)
       /\ \A W \in FreshnessWindows :
            Reads(CurStore, now, repo, W) = Reads(prev, now, repo, W)

\* A clear removed rows of its repository while another repository had
\* rows in the cache tables and in the durable tables.
C17_Witness ==
  /\ last.op = "clear_cache"
  /\ last.resp.status = 200
  /\ CurStore # prev
  /\ \E repo \in StoreRepos \ {last.repo} :
       /\ RowsOf(visualization_cache, repo) \cup RowsOf(repository_issues, repo)
            \cup RowsOf(repository_data, repo) # {}

ClearFailedAt(tables) ==
  \E c \in last.resp.calls : c.p = "clear_cache" /\ c.out \in tables

\* C18: a clear that fails at one of its deletes answers with an error and
\* leaves every table as it was; after any clear either nothing was removed
\* or none of the three cleared tables holds a row of the repository.
C18_ClearAllOrNothing ==
  last.op = "clear_cache"
  => /\ ClearFailedAt(ClearedTables) =>
          (last.resp.status = 500 /\ CurStore = prev)
     /\ \/ CurStore = prev
        \/ /\ RowsOf(repository_data, last.repo) = {}
           /\ RowsOf(repository_issues, last.repo) = {}
           /\ RowsOf(visualization_cache, last.repo) = {}

\* A clear failed at its second or third delete while the table of its
\* first delete held a row of the repository.
C18_Witness ==
  /\ last.op = "clear_cache"
  /\ ClearFailedAt({"repository_issues", "visualization_cache"})
  /\ RowsOf(prev.repository_data, last.repo) # {}

\* A query text that passes the three checks of the executor.
Accepted(q) == q.verb = "select" /\ ~q.more

\* What query q returns on a database whose issues table holds exactly the
\* rows of repo.
OnScopedTable(S, repo, q) ==
  Execute([S EXCEPT !.issues = IssuesOf(S, repo)], {}, [q EXCEPT !.trailing = 0])

\* C19: for every accepted query that reads the issues table, the scoped
\* query of a repository returns what the query returns on a table holding
\* exactly that repository's issue rows.
C19_ScopedQueryExact ==
  \A repo \in StoreRepos, q \in Queries :
    (Accepted(q) /\ Lower(q.table) = "issues")
    => LET result == execute_sql_query_on_issues(CurStore, repo, q) IN
       /\ ~result.error
       /\ result.rows = OnScopedTable(CurStore, repo, q).rows

\* The store without any data of a repository other than repo.
OnlyRepo(S, repo) ==
  [repository_data |-> RowsOf(S.repository_data, repo),
   repository_issues |-> RowsOf(S.repository_issues, repo),
   visualization_cache |-> RowsOf(S.visualization_cache, repo),
   issues |-> IssuesOf(S, repo),
   vec_issues |-> EmbeddingsOf(S, repo)]

\* C20: the scoped query of a repository returns the same for every accepted
\* query text whether or not the store holds data of other repositories.
C20_ScopedQueryIsolation ==
  \A repo \in StoreRepos, q \in Queries :
    Accepted(q)
    => execute_sql_query_on_issues(CurStore, repo, q)
         = execute_sql_query_on_issues(OnlyRepo(CurStore, repo), repo, q)

\* The text, the verdict and the result of the last scoped query.
LastQuery == last.resp.data.items[1]

LastResult == last.resp.data.items[2]

LastRejected == last.resp.data.status # ""

LastExecuted == \E c \in last.resp.calls : c.p = "cursor.execute"

\* A text that is empty, does not start with SELECT, or holds a separator
\* once a single separator at its end is taken off.
FailsPolicyAfterSingleTrim(q) ==
  \/ q.verb = ""
  \/ Lower(q.verb) # "select"
  \/ q.more
  \/ q.trailing > 1

\* The same once every separator at its end is taken off.
FailsPolicy(q) ==
  \/ q.verb = ""
  \/ Lower(q.verb) # "select"
  \/ q.more

\* C21 as stated: a text is rejected exactly when it is empty, does not
\* start with SELECT in any letter case, or still holds a statement
\* separator after one trailing separator is trimmed, and exactly the
\* other texts are executed.
C21_Original ==
  last.op = "execute_sql_query_on_issues"
  => /\ LastRejected <=> FailsPolicyAfterSingleTrim(LastQuery)
     /\ LastExecuted <=> ~FailsPolicyAfterSingleTrim(LastQuery)

\* C21 amended: a text is rejected exactly when, with every separator at
\* its end trimmed, it is empty, does not start with SELECT in any letter
\* case, or still holds a statement separator; a rejected text gets an
\* error result and only the texts that pass the three checks are executed.
C21_InputPolicy ==
  last.op = "execute_sql_query_on_issues"
  => /\ LastRejected <=> FailsPolicy(LastQuery)
     /\ LastExecuted <=> ~FailsPolicy(LastQuery)
     /\ LastRejected => LastResult.error

C21_Witness ==
  /\ last.op = "execute_sql_query_on_issues"
  /\ LastQuery.verb = "select"
  /\ LastQuery.trailing = 2
  /\ LastExecuted
  /\ ~LastResult.error
  /\ IssuesOf(CurStore, last.repo) # {}

\* C22: a scoped query, whatever its text, leaves all five persistent
\* tables as it found them; a rejected text is not handed to the database
\* at all and an error result comes back for it.
C22_QueryChangesNothing ==
  last.op = "execute_sql_query_on_issues"
  => /\ CurStore = prev
     /\ LastRejected => (~LastExecuted /\ LastResult.error)

C22_Witness ==
  /\ last.op = "execute_sql_query_on_issues"
  /\ LastQuery.more
  /\ LastRejected
  /\ LastResult.error
  /\ prev.issues # {}
  /\ prev.repository_issues # {}

\* C23: when a scoped query has returned, whether it ran, was rejected or
\* failed, and even when the drop in its finally clause failed, no
\* connection holds an issues_filtered table.
C23_ProjectionDiscarded ==
  last.op = "execute_sql_query_on_issues"
  => ~(\E t \in temp_tables : t.name = "issues_filtered")

C23_Witness ==
  /\ last.op = "execute_sql_query_on_issues"
  /\ \E c \in last.resp.calls : c.p = "cursor.execute" /\ c.out = "fail"
  /\ IssuesOf(prev, last.repo) # {}
  /\ temp_tables = {}

\* The rows of the last similarity search, its text and its top_k.
Found == last.resp.data.items

FoundIds == {Found[i].id : i \in 1..Len(Found)}

SearchText == last.field

SearchTopK == last.resp.data.v

\* C24: every row a similarity search returns is the row of an issue of
\* the repository asked for, carries the distance of that issue from the
\* query, and the rows come in ascending distance.
C24_SearchIsolation ==
  last.op = "similarity_search_issues"
  => /\ \A i \in 1..Len(Found) :
          /\ Found[i].repo_name = last.repo
          /\ \E r \in IssuesOf(CurStore, last.repo) :
               r.id = Found[i].id /\ r.issue_number = Found[i].issue_number
          /\ Found[i].distance = Distance(SearchText, Found[i].id)
     /\ \A i, j \in 1..Len(Found) :
          i < j => Found[i].distance <= Found[j].distance

C24_Witness ==
  /\ last.op = "similarity_search_issues"
  /\ Len(Found) >= 2
  /\ \E e \in vec_issues : e \notin EmbeddingsOf(CurStore, last.repo)

Min(a, b) == IF a < b THEN a ELSE b

\* C25: a similarity search returns exactly the min(top_k, n) nearest of
\* the n embedded issues of its repository, however many embeddings of
\* other repositories lie nearer to the query.
C25_SearchTopK ==
  last.op = "similarity_search_issues"
  => LET mine == EmbeddingsOf(CurStore, last.repo) IN
     /\ Len(Found) = Min(SearchTopK, Cardinality(mine))
     /\ FoundIds = {e.id : e \in KNearest(mine, SearchText, SearchTopK)}

\* The batch of the last index call as the loop sees it, the outcome of
\* each embedding call, and whether the call raised.
LastBatch == NormalizeCached(last.resp.data.items)

LastEmbed ==
  [id \in IssueIds |->
     IF Call("embed_failed", id) \in last.resp.calls THEN "fail" ELSE "ok"]

LastRaised == last.resp.status = 500

Indexed == last.op = "save_issues_with_embeddings"

\* An element of the batch that is a valid issue: it has an id and a
\* number, a title and a creation date, and its id is not the id of a
\* stored issue of another repository or number.
ValidIssue(issue, S, repo) ==
  /\ issue.id # "None"
  /\ issue.number # "None"
  /\ issue.title # "None"
  /\ issue.created_at # "None"
  /\ ~(\E r \in S.issues :
         r.id = issue.id /\ ~(r.repo_name = repo /\ r.issue_number = issue.number))

\* The valid issues of the last batch that had no row for their repository
\* and number when the call began.
NewIssues ==
  {LastBatch[i] : i \in {k \in 1..Len(LastBatch) :
     /\ ValidIssue(LastBatch[k], prev, last.repo)
     /\ ~(\E r \in IssuesOf(prev, last.repo) :
            r.issue_number = LastBatch[k].number)}}

\* C26: an index call whose embedding calls all succeed leaves one issue
\* row for each valid issue of the batch that had none for its repository
\* and number, no other new row, and one new vector for exactly those of
\* the new rows whose title plus body is not empty once trimmed.
C26_IndexCreatesRowsAndVectors ==
  (Indexed /\ \A id \in IssueIds : LastEmbed[id] = "ok")
  => /\ issues \ prev.issues = {IssueRow(issue, last.repo) : issue \in NewIssues}
     /\ {e.id : e \in vec_issues \ prev.vec_issues}
          = {issue.id : issue \in
               {x \in NewIssues : Strip(x.title) # ""
                                  \/ (x.body # "None" /\ Strip(x.body) # "")}}

\* C27: an index call does not raise, whatever single elements of its
\* batch are like, and every valid issue of the batch has its row when
\* the call is over.
C27_PerItemContainment ==
  Indexed
  => /\ ~LastRaised
     /\ \A issue \in NewIssues : IssueRow(issue, last.repo) \in issues

\* What the last index call would have left had every embedding call
\* succeeded.
WithEveryEmbedding ==
  save_issues_with_embeddings(prev, last.repo, last.resp.data, EmbedAll("ok"))

\* C28: failed embedding calls cost an index call nothing but the vectors
\* of the issues they were made for: the call raises or not, and leaves the
\* issue rows, as it would have with every embedding call succeeding, and
\* it leaves every vector of that run whose own embedding call succeeded.
C28_EmbeddingFailureIsolated ==
  Indexed
  => /\ LastRaised = WithEveryEmbedding.raised
     /\ issues = WithEveryEmbedding.S.issues
     /\ vec_issues =
          {e \in WithEveryEmbedding.S.vec_issues :
             e \in prev.vec_issues \/ LastEmbed[e.id] = "ok"}

C28_Witness ==
  /\ Indexed
  /\ ~LastRaised
  /\ \E failed, other \in NewIssues :
       /\ LastEmbed[failed.id] = "fail"
       /\ LastEmbed[other.id] = "ok"
       /\ IssueRow(failed, last.repo) \in issues
       /\ ~(\E e \in vec_issues : e.id = failed.id)
       /\ IssueRow(other, last.repo) \in issues
       /\ \E e \in vec_issues : e.id = other.id

\* C29: every vector belongs to a stored issue whose title plus body is
\* not empty once trimmed, was derived from that text, and no issue id has
\* two vectors.
C29_EmbeddingHasIssue ==
  /\ \A e \in vec_issues :
       \E r \in issues :
         /\ r.id = e.id
         /\ e.embedding = Embedding(r.title, r.body)
         /\ Strip(r.title) # "" \/ (r.body # "None" /\ Strip(r.body) # "")
  /\ \A e, f \in vec_issues : e.id = f.id => e = f

C29_Witness ==
  /\ last.op = "clear_cache"
  /\ last.resp.status = 200
  /\ EmbeddingsOf(CurStore, last.repo) # {}
  /\ \E r \in IssuesOf(CurStore, last.repo) :
       ~(\E e \in vec_issues : e.id = r.id)

\* C30: an index call of the same repository with the same batch, made
\* right after an index call and with whatever outcome of its embedding
\* calls, changes neither table; and an index call leaves every issue row
\* and every vector it found exactly as it was, also when its batch has an
\* issue of a stored repository and number under other field values.
C30_InsertIfAbsent ==
  Indexed
  => /\ \A embed \in EmbedChoices :
          LET again == save_issues_with_embeddings(CurStore, last.repo,
                                                   last.resp.data, embed).S
          IN again.issues = issues /\ again.vec_issues = vec_issues
     /\ prev.issues \subseteq issues
     /\ prev.vec_issues \subseteq vec_issues

C30_Witness ==
  /\ Indexed
  /\ ~LastRaised
  /\ issues # prev.issues
  /\ \E i \in 1..Len(LastBatch) :
       \E r \in IssuesOf(prev, last.repo) :
         /\ r.issue_number = LastBatch[i].number
         /\ r.title # LastBatch[i].title
         /\ r \in issues

\* The elements of a batch that the loop of an index call takes up, in
\* order: the loop ends with the element whose INSERT raises.
RECURSIVE TakenUp(_, _, _, _, _)
TakenUp(items, repo, iss, vec, embed) ==
  IF items = <<>> THEN <<>>
  ELSE LET r == IndexItem(Head(items), repo, iss, vec, embed) IN
       IF r.raised THEN <<Head(items)>>
       ELSE <<Head(items)>>
            \o TakenUp(Tail(items), repo, r.issues, r.vec_issues, embed)

LastTakenUp ==
  TakenUp(LastBatch, last.repo, prev.issues, prev.vec_issues, LastEmbed)

Addressable(issue) == issue.id # "None" /\ issue.number # "None"

Unaddressable(issue) == ~Addressable(issue)

\* C31: of the n elements of the batch of an index call, the k without id
\* or number are each skipped and the n - k others are each kept, in the
\* order of the batch.
C31_NormalizationByExclusion ==
  Indexed
  => /\ SelectSeq(LastTakenUp, Addressable) = SelectSeq(LastBatch, Addressable)
     /\ SelectSeq(LastTakenUp, Unaddressable) = SelectSeq(LastBatch, Unaddressable)

\* The list a cache read found stored, and the list it returned.
CacheRead == last.op = "get_repository_issues" /\ Truthy(last.resp.data)

StoredItems ==
  json_loads(FetchOne(RowsOf(prev.repository_issues, last.repo)).data).items

Decodable(item) == item.tag \in {"dict", "str"}

\* Every decodable element in object form, in the order of the list.
InObjectForm(items) ==
  LET kept == SelectSeq(items, Decodable) IN
  [i \in 1..Len(kept) |-> [kept[i] EXCEPT !.tag = "dict"]]

\* C32: whichever elements of a list are JSON strings of objects, a cache
\* read returns, and an index call works on, every decodable element in
\* object form, the objects among them unchanged.
C32_PerElementDecoding ==
  /\ CacheRead => last.resp.data.items = InObjectForm(StoredItems)
  /\ Indexed => LastBatch = InObjectForm(last.resp.data.items)

\* C33: when an operation on the store has returned or failed, no
\* connection it acquired is open.
C33_ConnectionsReleased == connections = {}

\* C34: when an operation has returned or failed, every write it made to
\* the store has been followed by volume.commit().
C34_WritesCommitted == uncommitted = {}

\* The sub-status stored under the key of the last request, as the request
\* found it and as it left it; "absent" when the key has no row.
SubStatus(rows) ==
  IF rows = {} THEN "absent" ELSE Doc(FetchOne(rows)).status

LeftRows == KeyRows(CurStore, last.op, last.repo, last.field)

\* absent, then processing, then the three final sub-statuses.
Rank(status) ==
  IF status = "absent" THEN 0 ELSE IF status = "processing" THEN 1 ELSE 2

\* C35 as stated: no nomic request, forced or not, expired artifact or
\* not, takes the sub-status stored under its key backwards, and none
\* replaces a complete artifact with a processing one.
C35_Original ==
  last.op \in NomicOps
  => /\ Rank(SubStatus(LeftRows)) >= Rank(SubStatus(FoundRows))
     /\ ~(SubStatus(FoundRows) = "complete" /\ SubStatus(LeftRows) = "processing")

\* C35 amended: a nomic request that forces no refresh and finds the
\* artifact of its key absent or within 168 hours never takes the stored
\* sub-status backwards, and it leaves a complete, timeout or error
\* artifact as it found it.
C35_SubStatusAdvances ==
  (/\ last.op \in NomicOps
   /\ ~last.force_refresh
   /\ \A row \in FoundRows : AgeFound(row) <= NomicMaxAgeHours)
  => /\ Rank(SubStatus(LeftRows)) >= Rank(SubStatus(FoundRows))
     /\ Rank(SubStatus(FoundRows)) = 2 => LeftRows = FoundRows

\* A processing artifact within 168 hours was advanced to complete by a
\* request that forced nothing.
C35_Witness ==
  /\ last.op \in NomicOps
  /\ ~last.force_refresh
  /\ \E row \in FoundRows : AgeFound(row) <= NomicMaxAgeHours
  /\ SubStatus(FoundRows) = "processing"
  /\ SubStatus(LeftRows) = "complete"

\* The nomic producer ran in the last request and its result carried an
\* error key.
NomicErrorKey ==
  /\ last.op \in NomicOps
  /\ Call("prepare_nomic_atlas_topics", "error_key") \in last.resp.calls

\* C36: a nomic request whose producer result carries an error key
\* answers with an error, and the rows under its key, payload and
\* timestamp, are the ones the request found.
C36_ErrorKeyWritesNothing ==
  NomicErrorKey
  => /\ last.resp.status = 500
     /\ LeftRows = FoundRows

\* A forced request whose producer result carried an error key found an
\* artifact under its key.
C36_Witness ==
  /\ NomicErrorKey
  /\ last.force_refresh
  /\ FoundRows # {}
  /\ LeftRows = FoundRows

GetInsights == last.op = "get_repository_insights_api"

\* The last request found a fresh, non-empty artifact under its key.
FoundFreshArtifact ==
  \E row \in FoundRows :
     AgeFound(row) <= DefaultMaxAgeHours /\ Truthy(Doc(row))

\* C37: a GET insights request that forces no refresh and finds a fresh
\* insights artifact runs neither the remote issue fetch nor the insights
\* producer, and writes no table.
C37_InsightsHitRunsNothing ==
  (GetInsights /\ ~last.force_refresh /\ FoundFreshArtifact)
  => /\ ~Ran("get_issues")
     /\ ~Ran("prepare_repository_insights")
     /\ CurStore = prev

\* C38: when GET insights runs the insights producer, on a miss or a
\* forced refresh, the producer is handed the issue list itself, its result
\* is stored under (repo, "insights") and returned as "generated".
C38_InsightsMissGenerates ==
  (GetInsights /\ Ran("prepare_repository_insights"))
  => /\ last.resp.fed.kind = "issues"
     /\ last.resp.status = 200
     /\ last.resp.source = "generated"
     /\ \E row \in LeftRows : Doc(row) = last.resp.data /\ row.last_updated = last.t

\* C39: a forced get_topics_from_ldavis request returns the topic data
\* that its own regeneration stored, or the empty-topics error result;
\* never topic data that was stored when the request began.
C39_ForcedTopicsAreRegenerated ==
  (last.op = "get_topics_from_ldavis" /\ last.force_refresh)
  => \/ last.resp.data = EmptyTopics
     \/ \E row \in LeftRows \ FoundRows :
          /\ row.last_updated = last.t
          /\ json_loads(Doc(row)) = last.resp.data

\* The elements of the last batch whose issue an earlier index call
\* inserted with a title but, its embedding call having failed, without a
\* vector, and for which the embedding service answers in the last call.
AwaitingRepair ==
  {LastBatch[i] : i \in {k \in 1..Len(LastBatch) :
     /\ Addressable(LastBatch[k])
     /\ HasContent(LastBatch[k].title, LastBatch[k].body)
     /\ LastEmbed[LastBatch[k].id] = "ok"
     /\ \E r \in IssuesOf(prev, last.repo) :
          /\ r.id = LastBatch[k].id
          /\ r.issue_number = LastBatch[k].number
          /\ Strip(r.title) # ""
     /\ ~(\E e \in prev.vec_issues : e.id = LastBatch[k].id)}}

\* C40 as stated: an issue whose embedding call failed in the index call
\* that inserted it has a vector after a later index call over the same
\* batch in which the embedding service answers.
C40_Original ==
  Indexed => \A issue \in AwaitingRepair : \E e \in vec_issues : e.id = issue.id

\* C40 amended: a later index call over the same batch leaves such an
\* issue as it found it, a row without a vector: an index call embeds only
\* the issues whose rows it inserts.
C40_NoEmbeddingRepair ==
  Indexed
  => \A issue \in AwaitingRepair :
       /\ ~(\E e \in vec_issues : e.id = issue.id)
       /\ \E r \in IssuesOf(CurStore, last.repo) : r.id = issue.id

\* A call that did not raise, with every embedding call answered, left an
\* issue of its batch without a vector.
C40_Witness ==
  /\ Indexed
  /\ ~LastRaised
  /\ \A id \in IssueIds : LastEmbed[id] = "ok"
  /\ \E issue \in AwaitingRepair : ~(\E e \in vec_issues : e.id = issue.id)

====
